---------------------------- MODULE Spec2Model ----------------------------
(***************************************************************************)
(* A model of the Heylock agent (src/src/index.js): the initialization     *)
(* handshake, the onInitialized registry, the message-history store and    *)
(* its accessors, message(), messageStream() and the shouldEngage          *)
(* throttle.                                                               *)
(*                                                                         *)
(* Conventions.                                                            *)
(*  - A JavaScript string is a sequence of symbols.  "a" is one            *)
(*    non-whitespace character, " " one whitespace character and "X" a     *)
(*    run of MAX_MESSAGE_LENGTH non-whitespace characters, so that the     *)
(*    length checks of the code are decided with the real constant; "!"    *)
(*    stands for the sentence of the stream's failure notice, "G" for a    *)
(*    sentence of greet's prompt and "M" for a run of                      *)
(*    MAX_CONTEXT_ENTRY_LENGTH non-whitespace characters.                  *)
(*  - null, undefined and `false` in a place where the code otherwise      *)
(*    holds a number are the empty tuple <<>>; a number n is <<n>>.        *)
(*  - Array indexes are the code's (0-based).                              *)
(*  - An async function is a sequence of atomic steps, one per stretch of  *)
(*    code between two awaits (or yields); other operations of the agent   *)
(*    may run between two steps.                                           *)
(***************************************************************************)
EXTENDS Integers, Sequences, FiniteSets, TLC

\* ------------------------------------------------------------- constants
MAX_MESSAGE_LENGTH == 10000

MAX_CONTEXT_ENTRY_LENGTH == 2000

SHOULD_ENGAGE_THROTTLING_MS == 15000

\* ---------------------------------------------------------------- bounds
\* Registrations with onInitialized that a run makes.
MaxCallbacks == 3

\* Entries the message history may hold before the explicit store
\* operations stop adding (appends made by message and messageStream are
\* not capped).
MaxHistory == 2

\* API calls (message, messageStream, shouldEngage) a run starts.
MaxCalls == 2

\* messageStream calls among them.
MaxStreams == 1

\* shouldEngage calls a run starts.
MaxEngages == 3

\* Steps of the wall clock a run takes.
MaxTicks == 3

\* ------------------------------------------------------------- variables
VARIABLES
    isInitialized,            \* #isInitialized
    usageRemaining,           \* #usageRemaining
    messageHistory,           \* #messageHistory
    onInitializedCallbacks,   \* #onInitializedCallbacks
    shouldEngageTimeCalled,   \* #shouldEngageTimeCalled
    initPc,                   \* where #initializeAgent stands
    unsubscribers,            \* the closures onInitialized returned
    calls,                    \* the API calls started, each with its locals
    now,                      \* Date.now() / new Date().getTime()
    ticks,                    \* steps the clock has taken
    initLog,                  \* observer: invocations of onInitialized callbacks
    initResponse,             \* observer: the fetch-usage body initialization read
    requests,                 \* observer: requests handed to fetch
    context,                  \* #context
    useMessageHistory,        \* useMessageHistory
    onMessageHistoryChangeCallbacks,   \* #onMessageHistoryChangeCallbacks
    onContextChangeCallbacks, \* #onContextChangeCallbacks
    changeLog,                \* observer: the change callbacks the latest step invoked
    storeThrew,               \* observer: what the store call of the latest step threw ("": nothing)
    useStorage,               \* useStorage
    environment,              \* the host: whether it is a browser, and its localStorage
    agents                    \* observer: the constructor calls made in this host

agentVars == <<isInitialized, usageRemaining, messageHistory,
               onInitializedCallbacks, shouldEngageTimeCalled>>

\* Persistence of the context.
storageVars == <<useStorage, environment, agents>>

\* The context store, the option and the change registries.
storeVars == <<context, useMessageHistory, onMessageHistoryChangeCallbacks,
               onContextChangeCallbacks, storageVars>>

vars == <<isInitialized, usageRemaining, messageHistory, onInitializedCallbacks,
          shouldEngageTimeCalled, initPc, unsubscribers, calls, now, ticks,
          initLog, initResponse, requests, storeVars, changeLog, storeThrew>>

\* ------------------------------------------------------ values and strings
Null == <<>>

Num(n) == <<n>>

IsNumber(v) == v # Null

\* NaN: a pair, so that it is no Num(n).
NaN == <<0, 0>>

\* Number(v) for v null, a number or a numeric string (Num(n)), or a string
\* that is not numeric (NaN).
NumberOf(v) == IF v = Null THEN Num(0) ELSE v

Range(s) == {s[i] : i \in 1..Len(s)}

\* The number of characters of one symbol of a string.
Weight(c) ==
    IF c = "X" THEN MAX_MESSAGE_LENGTH
    ELSE IF c = "M" THEN MAX_CONTEXT_ENTRY_LENGTH
    ELSE 1

\* String.prototype.length
RECURSIVE Length(_)
Length(s) == IF s = <<>> THEN 0 ELSE Weight(Head(s)) + Length(Tail(s))

RECURSIVE TrimStart(_)
TrimStart(s) == IF s # <<>> /\ Head(s) = " " THEN TrimStart(Tail(s)) ELSE s

RECURSIVE TrimEnd(_)
TrimEnd(s) ==
    IF s # <<>> /\ s[Len(s)] = " " THEN TrimEnd(SubSeq(s, 1, Len(s) - 1)) ELSE s

\* String.prototype.trim
Trim(s) == TrimEnd(TrimStart(s))

Roles == {"user", "assistant"}

Chars == {"a", " ", "X", "!", "G", "M"}

\* typeof v === 'string'
IsString(v) == \A i \in 1..Len(v) : v[i] \in Chars

\* A value that is not a string (an object, a number, undefined).
NotAString == <<"#object">>

\* A value that is an array of `items`, and one that is no array.
ArrayOf(items) == [isArray |-> TRUE, items |-> items]

NotAnArray == [isArray |-> FALSE, items |-> <<>>]

\* A variant of Splice1 that removes the element before the one at index.
SpliceBefore(array, index) ==
    IF index < 1 \/ index > Len(array) THEN array
    ELSE SubSeq(array, 1, index - 1) \o SubSeq(array, index + 1, Len(array))

\* Array.prototype.splice(index, 1) for index >= 0
Splice1(array, index) ==
    IF index + 1 > Len(array) THEN array
    ELSE SubSeq(array, 1, index) \o SubSeq(array, index + 2, Len(array))

\* ------------------------------------------------------------ persistence
\* A text is a sequence of symbols: the characters of strings, the decimal
\* digits, the punctuation of JSON, and one symbol for each member name with
\* its quotes and colon.  No character of Chars needs an escape.
DigitChars == <<"0", "1", "2", "3", "4", "5", "6", "7", "8", "9">>

\* String(n) for an integer n >= 0
RECURSIVE NumberToString(_)
NumberToString(n) ==
    IF n < 10 THEN <<DigitChars[n + 1]>>
    ELSE NumberToString(n \div 10) \o <<DigitChars[(n % 10) + 1]>>

\* A variant of JSONstringifyEntry that leaves the timestamp out.
JSONstringifyContentOnly(entry) ==
    <<"{", "content:", "\"">> \o entry.content \o <<"\"", "}">>

\* JSON.stringify of one context entry {content, timestamp}
JSONstringifyEntry(entry) ==
    <<"{", "content:", "\"">> \o entry.content \o <<"\"", ",", "timestamp:">>
        \o NumberToString(entry.timestamp) \o <<"}">>

RECURSIVE JSONstringifyItems(_)
JSONstringifyItems(items) ==
    IF items = <<>> THEN <<>>
    ELSE IF Len(items) = 1 THEN JSONstringifyEntry(items[1])
    ELSE JSONstringifyEntry(items[1]) \o <<",">> \o JSONstringifyItems(Tail(items))

\* JSON.stringify(value) for the context array
JSONstringify(value) == <<"[">> \o JSONstringifyItems(value) \o <<"]">>

\* The first position of the symbol c in the text t; 0 when it is not there.
FirstIndex(t, c) ==
    IF \E i \in 1..Len(t) : t[i] = c
    THEN CHOOSE i \in 1..Len(t) : t[i] = c /\ \A j \in 1..(i - 1) : t[j] # c
    ELSE 0

IsDigit(c) == \E d \in 1..10 : DigitChars[d] = c

DigitValue(c) == (CHOOSE d \in 1..10 : DigitChars[d] = c) - 1

\* The number written by a non-empty text of digits.
RECURSIVE ParseNumber(_)
ParseNumber(t) ==
    IF Len(t) = 1 THEN DigitValue(t[1])
    ELSE ParseNumber(SubSeq(t, 1, Len(t) - 1)) * 10 + DigitValue(t[Len(t)])

\* The text t as one JSON value that is no object and no array: a number or
\* a string literal.
ParseValue(t) ==
    IF t # <<>> /\ \A i \in 1..Len(t) : IsDigit(t[i])
        THEN [ok |-> TRUE, kind |-> "number", number |-> ParseNumber(t), string |-> <<>>]
    ELSE IF /\ Len(t) >= 2 /\ t[1] = "\"" /\ t[Len(t)] = "\""
            /\ \A i \in 2..(Len(t) - 1) : t[i] \in Chars
        THEN [ok |-> TRUE, kind |-> "string", number |-> 0,
              string |-> SubSeq(t, 2, Len(t) - 1)]
    ELSE [ok |-> FALSE, kind |-> "", number |-> 0, string |-> <<>>]

\* The texts between the commas of t.
RECURSIVE SplitOnComma(_)
SplitOnComma(t) ==
    IF FirstIndex(t, ",") = 0 THEN <<t>>
    ELSE <<SubSeq(t, 1, FirstIndex(t, ",") - 1)>>
             \o SplitOnComma(SubSeq(t, FirstIndex(t, ",") + 1, Len(t)))

\* The text between the braces of an object as the element it denotes:
\* content is the string of its member `content` (NotAString when the member
\* is missing or no string), timestamp the number of its member `timestamp`
\* (Null when the member is missing, NaN when it is no number).
ParseObject(t) ==
    LET Named(members, name) ==
            {i \in 1..Len(members) : members[i] # <<>> /\ members[i][1] = name}
        Content(value) == IF value.kind = "string" THEN value.string ELSE NotAString
        Timestamp(value) == IF value.kind = "number" THEN Num(value.number) ELSE NaN
        Members(members, values) ==
            LET Object(contents, timestamps) ==
                    [ok |-> \A i \in 1..Len(members) :
                                i \in contents \cup timestamps /\ values[i].ok,
                     element |->
                         [object |-> TRUE,
                          content |-> IF contents = {} THEN NotAString
                                      ELSE Content(values[CHOOSE i \in contents : TRUE]),
                          timestamp |-> IF timestamps = {} THEN Null
                                        ELSE Timestamp(values[CHOOSE i \in timestamps : TRUE])]]
            IN Object(Named(members, "content:"), Named(members, "timestamp:"))
        Separated(members) ==
            Members(members, [i \in 1..Len(members) |-> ParseValue(Tail(members[i]))])
    IN Separated(IF t = <<>> THEN <<>> ELSE SplitOnComma(t))

\* An element of a parsed array that is no object.
NotAnObject == [object |-> FALSE, content |-> NotAString, timestamp |-> Null]

\* The text t as a list of JSON values separated by commas.
RECURSIVE ParseElements(_)
ParseElements(t) ==
    IF t = <<>> THEN [ok |-> FALSE, items |-> <<>>]
    ELSE LET end == IF t[1] = "{" THEN FirstIndex(t, "}")
                    ELSE IF FirstIndex(t, ",") = 0 THEN Len(t)
                    ELSE FirstIndex(t, ",") - 1
             rest == SubSeq(t, end + 1, Len(t))
             Elements(first, others) ==
                 IF ~first.ok THEN [ok |-> FALSE, items |-> <<>>]
                 ELSE IF rest = <<>> THEN [ok |-> TRUE, items |-> <<first.element>>]
                 ELSE IF rest[1] = "," /\ others.ok
                     THEN [ok |-> TRUE, items |-> <<first.element>> \o others.items]
                 ELSE [ok |-> FALSE, items |-> <<>>]
         IN Elements(IF t[1] = "{"
                     THEN IF end = 0
                          THEN [ok |-> FALSE, element |-> NotAnObject]
                          ELSE ParseObject(SubSeq(t, 2, end - 1))
                     ELSE [ok |-> ParseValue(SubSeq(t, 1, end)).ok,
                           element |-> NotAnObject],
                     ParseElements(Tail(rest)))

\* JSON.parse(contextStorageString): ok is FALSE when it throws a SyntaxError.
JSONparseStored(t) ==
    LET Array(elements) == [ok |-> elements.ok, value |-> ArrayOf(elements.items)]
        Single(elements) == [ok |-> elements.ok /\ Len(elements.items) = 1,
                             value |-> NotAnArray]
    IN IF Len(t) >= 2 /\ t[1] = "[" /\ t[Len(t)] = "]"
       THEN IF Len(t) = 2 THEN [ok |-> TRUE, value |-> ArrayOf(<<>>)]
            ELSE Array(ParseElements(SubSeq(t, 2, Len(t) - 1)))
       ELSE Single(ParseElements(t))

\* The keys of localStorage, and what getItem answers for a key that has no
\* item (null).  The empty text is an item that is the empty string.
StorageKeys == {"context", "heylock:A2:context", "heylock:A3:context"}

NoItem == <<"#null">>

NoItems == [key \in StorageKeys |-> NoItem]

\* #setStorageItem(key, value): the environment it leaves.  Outside a
\* browser it warns and returns.
setStorageItem(env, key, value) ==
    IF ~env.isBrowser THEN env
    ELSE [env EXCEPT !.localStorage[key] = JSONstringify(value)]

\* #getStorageItem(key): outside a browser it warns and returns undefined.
getStorageItem(env, key, suppressWarnings) ==
    IF ~env.isBrowser
    THEN [value |-> NoItem,
          warnings |-> IF suppressWarnings THEN <<>>
                       ELSE <<"Data can only be retrieved in a browser environment.">>]
    ELSE [value |-> env.localStorage[key], warnings |-> <<>>]

\* The check the constructor makes of one element of the parsed array.
ValidStoredEntry(entry) ==
    /\ entry.object
    /\ entry.content # NotAString
    /\ Length(Trim(entry.content)) > 0
    /\ Length(entry.content) <= MAX_CONTEXT_ENTRY_LENGTH
    /\ \/ entry.timestamp = Null
       \/ Len(entry.timestamp) = 1 /\ entry.timestamp[1] >= 0

\* A variant of RestoreContext that keeps the valid entries of an array.
RestoreValidEntries(contextStorageString, currentTime, suppressWarnings) ==
    LET Restore(valid) ==
            [context |-> [i \in 1..Len(valid) |->
                             [content |-> Trim(valid[i].content),
                              timestamp |-> IF valid[i].timestamp = Null THEN currentTime
                                            ELSE valid[i].timestamp[1]]],
             warnings |-> <<>>]
    IN Restore(SelectSeq(JSONparseStored(contextStorageString).value.items,
                         ValidStoredEntry))

\* The constructor from `if (contextStorageString)` on: the context it sets
\* and the warnings it gives.  null, undefined and '' are falsy.
RestoreContext(contextStorageString, currentTime, suppressWarnings) ==
    LET Warn(text) == IF suppressWarnings THEN <<>> ELSE <<text>>
        Restore(parsedContext) ==
            IF ~parsedContext.ok
                THEN [context |-> <<>>,
                      warnings |-> Warn("Failed to parse stored context. Context will not be restored.")]
            ELSE IF parsedContext.value.isArray
                    /\ \A i \in 1..Len(parsedContext.value.items) :
                           ValidStoredEntry(parsedContext.value.items[i])
                THEN [context |-> [i \in 1..Len(parsedContext.value.items) |->
                                      [content |-> Trim(parsedContext.value.items[i].content),
                                       timestamp |->
                                           IF parsedContext.value.items[i].timestamp = Null
                                           THEN currentTime
                                           ELSE parsedContext.value.items[i].timestamp[1]]],
                      warnings |-> <<>>]
            ELSE [context |-> <<>>,
                  warnings |-> Warn("Stored context is invalid. Context will not be restored.")]
    IN IF contextStorageString = NoItem \/ contextStorageString = <<>>
           THEN [context |-> <<>>, warnings |-> <<>>]
       ELSE Restore(JSONparseStored(contextStorageString))

\* The callback the constructor registers with onContextChange when
\* useStorage is true.
StorageCallback == 0

\* The options of the constructor that matter here; agentId is an option the
\* documentation names and the constructor does not read.
Options(useMessageHistoryOption, useStorageOption, suppressWarnings, agentId) ==
    [useMessageHistory |-> useMessageHistoryOption, useStorage |-> useStorageOption,
     suppressWarnings |-> suppressWarnings, agentId |-> agentId]

\* What the constructor called with `options` in the host `env` finds and
\* sets up: the item read, the context restored from it, the context of the
\* agent (which its later operations change) and the warnings given.
Construction(options, env, currentTime) ==
    LET Restoring(found, restored) ==
            [agentId |-> options.agentId,
             suppressWarnings |-> options.suppressWarnings,
             stored |-> found.value,
             restored |-> restored.context,
             context |-> restored.context,
             warnings |-> found.warnings \o restored.warnings]
        Reading(found) ==
            Restoring(found,
                      RestoreContext(found.value, currentTime, options.suppressWarnings))
    IN IF options.useStorage
       THEN Reading(getStorageItem(env, "context", options.suppressWarnings))
       ELSE [agentId |-> options.agentId,
             suppressWarnings |-> options.suppressWarnings,
             stored |-> NoItem, restored |-> <<>>, context |-> <<>>,
             warnings |-> <<>>]

\* A host that is no browser.
Node == [isBrowser |-> FALSE, localStorage |-> NoItems]

\* A browser whose localStorage holds `text` under `key`.
Browser(key, text) ==
    [isBrowser |-> TRUE, localStorage |-> [NoItems EXCEPT ![key] = text]]

\* ------------------------------------------------------------ the state
\* The agent once the constructor has returned, called with `options` in the
\* host `env`: #initializeAgent has run up to its first await, the
\* verification request is in flight.
ConstructedIn(options, env) ==
    /\ agents = <<Construction(options, env, SHOULD_ENGAGE_THROTTLING_MS)>>
    /\ isInitialized = FALSE
    /\ usageRemaining = [messages |-> Null, sorts |-> Null, rewrites |-> Null]
    /\ messageHistory = <<>>
    /\ onInitializedCallbacks = <<>>
    /\ shouldEngageTimeCalled = 0
    /\ initPc = "verifyKey"
    /\ unsubscribers = <<>>
    /\ calls = <<>>
    /\ now = SHOULD_ENGAGE_THROTTLING_MS
    /\ ticks = 0
    /\ initLog = <<>>
    /\ initResponse = Null
    /\ requests = <<>>
    /\ context = agents[1].context
    /\ useMessageHistory = options.useMessageHistory
    /\ onMessageHistoryChangeCallbacks = <<>>
    /\ onContextChangeCallbacks =
           IF options.useStorage THEN <<StorageCallback>> ELSE <<>>
    /\ changeLog = <<>>
    /\ storeThrew = ""
    /\ useStorage = options.useStorage
    /\ environment = env

\* new Heylock(agentKey, {useMessageHistory, useStorage: false}) outside a
\* browser.
Constructed(useMessageHistoryOption) ==
    ConstructedIn(Options(useMessageHistoryOption, FALSE, FALSE, "default"), Node)

\* new Heylock(agentKey, {useStorage: false}): useMessageHistory defaults to
\* true.
Init == Constructed(TRUE)

\* new Heylock(agentKey, {useMessageHistory, useStorage: false}).
InitOptions == \E option \in BOOLEAN : Constructed(option)

\* The step calls no store method that throws and invokes no change callback.
Quiet == changeLog' = <<>> /\ storeThrew' = ""

\* ------------------------------------------------- onInitialized registry
\* onInitialized(callback): the callback is pushed and the closure returned
\* keeps the position it was pushed at (newArrayLength - 1).  A registration
\* is identified by its number, the n-th call registering callback n.
onInitialized ==
    /\ Len(unsubscribers) < MaxCallbacks
    /\ LET callback == Len(unsubscribers) + 1
           newArrayLength == Len(onInitializedCallbacks) + 1
       IN /\ onInitializedCallbacks' = Append(onInitializedCallbacks, callback)
          /\ unsubscribers' = Append(unsubscribers, newArrayLength - 1)
    /\ UNCHANGED <<isInitialized, usageRemaining, messageHistory,
                   shouldEngageTimeCalled, initPc, calls, now, ticks, storeVars, initLog,
                   initResponse, requests>>
    /\ Quiet

\* The closure returned by the n-th onInitialized call: it removes whatever
\* stands at the remembered position.
onInitializedUnsubscribe(n) ==
    /\ n \in 1..Len(unsubscribers)
    /\ LET index == unsubscribers[n]
       IN onInitializedCallbacks' =
              IF index # -1 THEN Splice1(onInitializedCallbacks, index)
              ELSE onInitializedCallbacks
    /\ UNCHANGED <<isInitialized, usageRemaining, messageHistory,
                   shouldEngageTimeCalled, initPc, unsubscribers, calls, now,
                   ticks, storeVars, initLog, initResponse, requests>>
    /\ Quiet

\* What one callback is called with and what it can read of the agent then.
Invocation(callback, initialized, usage) ==
    [callback |-> callback, success |-> initialized,
     isInitialized |-> initialized, usageRemaining |-> usage]

\* A variant of #onInitializedExecute that runs before the counters are stored.
onInitializedExecuteEarly(callbacks, initialized, usage) ==
    [i \in 1..Len(callbacks) |->
        Invocation(callbacks[i], initialized,
                   [messages |-> Null, sorts |-> Null, rewrites |-> Null])]

\* #onInitializedExecute: every callback of a copy of the list is called with
\* this.isInitialized; a callback that throws is caught.  The result is the
\* log of invocations it adds, for the agent state (initialized, usage).
onInitializedExecute(callbacks, initialized, usage) ==
    [i \in 1..Len(callbacks) |-> Invocation(callbacks[i], initialized, usage)]

\* ---------------------------------------------------------- initialization
VerifyStatuses == {200, 500, 404}

\* The `valid` field of a verification body: a boolean, or something else.
VerifyValid == {"true", "false", "nope"}

UsageStatuses == {200, 401, 500, 503, 404}

\* Bodies of a 200 fetch-usage response; Null is a body without `limits`.
UsageBodies ==
    {[messages |-> Num(m), sorts |-> Num(m + 1), rewrites |-> Num(m + 2)] :
        m \in {1, 5}} \cup {Null}

\* #initializeAgent from the verification response on: what it throws, or
\* "" when it goes on to fetchUsageRemaining.
VerifyOutcome(status, valid) ==
    IF status = 500 THEN "Agent initialization failed: server issues"
    ELSE IF status # 200 THEN "Agent initialization failed: something went wrong"
    ELSE IF valid \notin {"true", "false"}
        THEN "Agent initialization failed: unexpected response"
    ELSE IF valid = "false" THEN "Agent initialization failed: invalid agentKey"
    ELSE ""

\* A variant of VerifyKeySettles in which an agent that failed verifies
\* again.
VerifyKeySettlesAgain(transport, status, valid) ==
    /\ initPc \in {"verifyKey", "failed"}
    /\ IF transport /\ VerifyOutcome(status, valid) = ""
       THEN /\ isInitialized' = TRUE
            /\ initPc' = "fetchUsage"
            /\ requests' = Append(requests, [op |-> "fetchUsageRemaining", at |-> now])
       ELSE /\ initPc' = "failed"
            /\ UNCHANGED <<isInitialized, requests>>
    /\ UNCHANGED <<usageRemaining, messageHistory, onInitializedCallbacks,
                   shouldEngageTimeCalled, unsubscribers, calls, now, ticks, storeVars,
                   initLog, initResponse>>
    /\ Quiet

\* The verification request settles (transport = FALSE: fetch rejects).
\* A failure is thrown again by the catch block: the promise of
\* #initializeAgent rejects and nothing else happens.
VerifyKeySettles(transport, status, valid) ==
    /\ initPc = "verifyKey"
    /\ IF transport /\ VerifyOutcome(status, valid) = ""
       THEN /\ isInitialized' = TRUE
            /\ initPc' = "fetchUsage"
            /\ requests' = Append(requests, [op |-> "fetchUsageRemaining", at |-> now])
       ELSE /\ initPc' = "failed"
            /\ UNCHANGED <<isInitialized, requests>>
    /\ UNCHANGED <<usageRemaining, messageHistory, onInitializedCallbacks,
                   shouldEngageTimeCalled, unsubscribers, calls, now, ticks, storeVars,
                   initLog, initResponse>>
    /\ Quiet

\* fetchUsageRemaining from its response on: the counters it stores, or Null
\* when it throws.
FetchUsageOutcome(transport, status, body) ==
    IF transport /\ status = 200 /\ body # Null
    THEN [messages |-> body.messages, sorts |-> body.sorts,
          rewrites |-> body.rewrites]
    ELSE Null

\* The fetch-usage request of initialization settles.  On success the
\* counters are stored and then the callbacks run; on failure
\* #initializeAgent's catch block throws.
InitUsageSettles(transport, status, body) ==
    /\ initPc = "fetchUsage"
    /\ LET newRemaining == FetchUsageOutcome(transport, status, body)
       IN IF newRemaining # Null
          THEN /\ usageRemaining' = newRemaining
               /\ initLog' = initLog \o
                      onInitializedExecute(onInitializedCallbacks, isInitialized,
                                           newRemaining)
               /\ initResponse' = body
               /\ initPc' = "ready"
          ELSE /\ initPc' = "failed"
               /\ UNCHANGED <<usageRemaining, initLog, initResponse>>
    /\ UNCHANGED <<isInitialized, messageHistory, onInitializedCallbacks,
                   shouldEngageTimeCalled, unsubscribers, calls, now, ticks, storeVars,
                   requests>>
    /\ Quiet

InitializeAgent ==
    \/ \E transport \in BOOLEAN, status \in VerifyStatuses, valid \in VerifyValid :
           VerifyKeySettles(transport, status, valid)
    \/ \E transport \in BOOLEAN, status \in UsageStatuses, body \in UsageBodies :
           InitUsageSettles(transport, status, body)

\* Initialization as the specifications of the routes see it: it succeeds, or
\* one of its two requests is answered 500.
InitializeAgentBriefly ==
    \/ \E status \in {200, 500} : VerifyKeySettles(TRUE, status, "true")
    \/ \E status \in {200, 500} :
           InitUsageSettles(TRUE, status,
               [messages |-> Num(1), sorts |-> Num(2), rewrites |-> Num(3)])

\* Initialization and the onInitialized registry.
NextInit ==
    \/ InitializeAgent
    \/ onInitialized
    \/ \E n \in 1..MaxCallbacks : onInitializedUnsubscribe(n)

SpecInit == Init /\ [][NextInit]_vars

\* ------------------------------------------------- message history store
\* An entry of the history is {content, role}.  The observer field `by` says
\* which object it is: the number of the messageStream call that pushed it as
\* its placeholder, 0 for any other entry.
\* The outcome of a store method applied to the history h: it returned
\* `value` leaving `history`, or threw `error` leaving the history as it was.
Returned(history, value) ==
    [ok |-> TRUE, error |-> "", history |-> history, value |-> value]

Thrown(error, history) ==
    [ok |-> FALSE, error |-> error, history |-> history, value |-> Null]

\* indexOf(callback), counted from 1; 0 when it is not there.
IndexOf(callbacks, callback) ==
    IF \E i \in 1..Len(callbacks) : callbacks[i] = callback
    THEN CHOOSE i \in 1..Len(callbacks) :
             /\ callbacks[i] = callback
             /\ \A j \in 1..(i - 1) : callbacks[j] # callback
    ELSE 0

\* What a change callback does when it is called: callback 2 throws,
\* callback 3 calls the closure its registration returned, any other returns.
Throwing == {2}

OneShot == {3}

\* Array.prototype.forEach over a change registry, from index k on, `len`
\* being the length the registry had when forEach began: an index that is no
\* longer in the array is passed over, each callback found is called in a
\* try block with the collection as it is now, and what it does to the
\* registry is seen by the rest of the loop.
RECURSIVE ForEach(_, _, _, _, _)
ForEach(store, callbacks, k, len, collection) ==
    IF k >= len THEN [log |-> <<>>, callbacks |-> callbacks]
    ELSE IF k + 1 > Len(callbacks)
        THEN ForEach(store, callbacks, k + 1, len, collection)
    ELSE LET callback == callbacks[k + 1]
             after == IF callback \in OneShot
                      THEN Splice1(callbacks, IndexOf(callbacks, callback) - 1)
                      ELSE callbacks
             rest == ForEach(store, after, k + 1, len, collection)
         IN [log |-> <<[store |-> store, callback |-> callback,
                        value |-> collection]>> \o rest.log,
             callbacks |-> rest.callbacks]

\* A variant of Deliver in which the error of a callback ends the loop.
DeliverUntilError(store, callbacks, collection) ==
    LET log == ForEach(store, callbacks, 0, Len(callbacks), collection).log
        thrown == {i \in 1..Len(log) : log[i].callback \in Throwing}
    IN IF thrown = {} THEN log
       ELSE SubSeq(log, 1, CHOOSE i \in thrown : \A j \in thrown : i <= j)

\* The calls one notification makes: the callbacks it invokes, in order, each
\* with the collection.
Deliver(store, callbacks, collection) ==
    ForEach(store, callbacks, 0, Len(callbacks), collection).log

\* The registry one notification leaves.
Registered(callbacks) ==
    ForEach("", callbacks, 0, Len(callbacks), <<>>).callbacks

\* The registry left by as many notifications as `collections` has elements.
RECURSIVE RegisteredAfter(_, _)
RegisteredAfter(callbacks, collections) ==
    IF collections = <<>> THEN callbacks
    ELSE RegisteredAfter(Registered(callbacks), Tail(collections))

\* The calls made by one notification for each of `collections`, in turn.
RECURSIVE DeliverAll(_, _, _)
DeliverAll(store, callbacks, collections) ==
    IF collections = <<>> THEN <<>>
    ELSE Deliver(store, callbacks, Head(collections))
             \o DeliverAll(store, Registered(callbacks), Tail(collections))

\* #onMessageHistoryChangeExecute(), the history being h.
onMessageHistoryChangeExecute(h) ==
    Deliver("messageHistory", onMessageHistoryChangeCallbacks, h)

\* #onContextChangeExecute(), the context being c.
onContextChangeExecute(c) == Deliver("context", onContextChangeCallbacks, c)

\* The context store, the option and the registry of the context.
contextVars == <<context, useMessageHistory, onContextChangeCallbacks, storageVars>>

\* The step runs #onMessageHistoryChangeExecute once for each of `histories`,
\* the history as it was at each call.
HistoryNotified(histories) ==
    /\ changeLog' = DeliverAll("messageHistory", onMessageHistoryChangeCallbacks,
                               histories)
    /\ onMessageHistoryChangeCallbacks' =
           RegisteredAfter(onMessageHistoryChangeCallbacks, histories)

\* `role` left out of a call (undefined); like '' it is falsy.
NoRole == ""

\* A variant of addMessage that puts the entry at the front of the history.
addMessageAtFront(h, content, role) ==
    IF ~IsString(content) \/ Length(content) > MAX_MESSAGE_LENGTH
          \/ (role # "user" /\ role # "assistant")
        THEN Thrown("addMessageToHistory failed", h)
    ELSE Returned(<<[content |-> Trim(content), role |-> role, by |-> 0]>> \o h,
                  Num(Len(h)))

\* A variant of addMessage that stores the content as given.
addMessageUntrimmed(h, content, role) ==
    IF ~IsString(content) \/ Length(content) > MAX_MESSAGE_LENGTH
          \/ (role # "user" /\ role # "assistant")
        THEN Thrown("addMessageToHistory failed", h)
    ELSE Returned(Append(h, [content |-> content, role |-> role, by |-> 0]),
                  Num(Len(h)))

\* addMessage(content, role = "user")
addMessage(h, content, role) ==
    IF ~IsString(content)
        THEN Thrown("addMessageToHistory failed: content must be a string", h)
    ELSE IF Length(content) > MAX_MESSAGE_LENGTH
        THEN Thrown("addMessageToHistory failed: content exceeds maximum", h)
    ELSE IF role # "user" /\ role # "assistant"
        THEN Thrown("addMessageToHistory failed: role", h)
    ELSE LET newLength == Len(h) + 1
         IN Returned(Append(h, [content |-> Trim(content), role |-> role, by |-> 0]),
                     Num(newLength - 1))

\* removeMessage(index)
removeMessage(h, index) ==
    IF ~IsNumber(index) \/ index[1] < 0
        THEN Thrown("removeMessage failed: index must be a number", h)
    ELSE IF index[1] > Len(h) - 1
        THEN Thrown("removeMessage failed: index out of bounds", h)
    ELSE Returned(Splice1(h, index[1]), Null)

\* modifyMessage(index, content, role)
modifyMessage(h, index, content, role) ==
    IF ~IsNumber(index) \/ index[1] < 0
        THEN Thrown("modifyMessage failed: index must be a number", h)
    ELSE IF index[1] > Len(h) - 1
        THEN Thrown("modifyMessage failed: index out of bounds", h)
    ELSE IF ~IsString(content) \/ Length(Trim(content)) = 0
        THEN Thrown("modifyMessage failed: content must be a non-empty string", h)
    ELSE IF Length(content) > MAX_MESSAGE_LENGTH
        THEN Thrown("modifyMessage failed: content exceeds maximum", h)
    ELSE IF role # NoRole /\ (role # "user" /\ role # "assistant")
        THEN Thrown("modifyMessage failed: role", h)
    ELSE Returned(
           [h EXCEPT ![index[1] + 1].content = Trim(content),
                     ![index[1] + 1].role =
                         IF role # NoRole THEN role ELSE h[index[1] + 1].role],
           Null)

\* One element of the argument of setMessageHistory passes its check.
ValidMessage(message) ==
    /\ IsString(message.content)
    /\ Length(message.content) <= MAX_MESSAGE_LENGTH
    /\ message.role \in {"user", "assistant"}

\* setMessageHistory(messageHistory), for an array argument
setMessageHistory(h, array) ==
    IF \E index \in 1..Len(array) : ~ValidMessage(array[index])
        THEN Thrown("setMessageHistory failed: message is invalid", h)
    ELSE Returned([index \in 1..Len(array) |->
                      [content |-> Trim(array[index].content),
                       role |-> array[index].role, by |-> 0]], Null)

\* clearMessageHistory()
clearMessageHistory(h) == Returned(<<>>, Null)

\* -------------------------------------------------------------- accessors
\* What a getter hands out: the value, whether it is the agent's own array
\* or object (not a copy), whether it is frozen, and the same for the
\* elements of an array.
get_messageHistory ==
    [value |-> messageHistory, same |-> TRUE, frozen |-> FALSE,
     sameElements |-> TRUE, frozenElements |-> FALSE]

get_usageRemaining ==
    [value |-> usageRemaining, same |-> TRUE, frozen |-> FALSE]

get_isInitialized == isInitialized

\* ------------------------------------------------------- JSON members
\* A member of the object given to JSON.stringify, as it is in the text
\* produced: left out (its value was undefined), false, or a value.
Absent == [member |-> "absent", value |-> <<>>]

JSONfalse == [member |-> "false", value |-> <<>>]

JSONvalue(v) == [member |-> "value", value |-> v]

\* No request body: the call has not built one, or is over.
NoPayload == [none |-> Absent]

\* ------------------------------------------------ the caller, on the store
\* An in-flight call other than `self` sees a history operation in between:
\* what it recorded of the history at its start is dropped.
Interleave(cs, self) ==
    [i \in 1..Len(cs) |->
        IF i # self /\ cs[i].pc # "done"
        THEN [cs[i] EXCEPT !.interleaved = TRUE, !.before = <<>>,
                           !.payload = NoPayload]
        ELSE cs[i]]

\* The store method with outcome r, called by the user.
StoreCall(r) ==
    /\ messageHistory' = r.history
    /\ calls' = IF r.ok THEN Interleave(calls, 0) ELSE calls
    /\ UNCHANGED <<isInitialized, usageRemaining, onInitializedCallbacks,
                   shouldEngageTimeCalled, initPc, unsubscribers, now, ticks, contextVars,
                   initLog, initResponse, requests>>
    /\ HistoryNotified(IF r.ok THEN <<r.history>> ELSE <<>>)
    /\ storeThrew' = r.error

AddMessage(content, role) ==
    /\ Len(messageHistory) < MaxHistory
    /\ StoreCall(addMessage(messageHistory, content, role))

RemoveMessage(index) == StoreCall(removeMessage(messageHistory, index))

ModifyMessage(index, content, role) ==
    StoreCall(modifyMessage(messageHistory, index, content, role))

SetMessageHistory(array) == StoreCall(setMessageHistory(messageHistory, array))

ClearMessageHistory == StoreCall(clearMessageHistory(messageHistory))

\* The store operations a caller makes while the routes are in use, with
\* indexes that are in the history.
HistoryStoreBriefly ==
    \/ AddMessage(<<"a", " ">>, "user")
    \/ \E index \in {Num(0), Num(1)} :
           index[1] < Len(messageHistory) /\ RemoveMessage(index)
    \/ messageHistory # <<>> /\ ModifyMessage(Num(0), <<"a", "a">>, NoRole)
    \/ SetMessageHistory(<<[content |-> <<"a">>, role |-> "assistant"]>>)
    \/ ClearMessageHistory

\* ------------------------------------- the caller, on what a getter returned
\* What hist.push(1) puts into the array.
Foreign == [content |-> <<"a">>, role |-> "foreign", by |-> 0]

\* const hist = agent.messageHistory; hist.push(1)
ExternalPush ==
    /\ Len(messageHistory) < MaxHistory
    /\ LET hist == get_messageHistory
       IN messageHistory' =
              IF hist.same /\ ~hist.frozen
              THEN Append(messageHistory, Foreign) ELSE messageHistory
    /\ UNCHANGED usageRemaining

\* const hist = agent.messageHistory; hist[index].content = 'bad'
ExternalElementAssign(index) ==
    /\ index < Len(messageHistory)
    /\ LET hist == get_messageHistory
       IN messageHistory' =
              IF hist.sameElements /\ ~hist.frozenElements
              THEN [messageHistory EXCEPT ![index + 1].content = <<"a", "a", "a">>]
              ELSE messageHistory
    /\ UNCHANGED usageRemaining

\* const usage = agent.usageRemaining; usage.messages = 0
ExternalUsageAssign ==
    /\ LET usage == get_usageRemaining
       IN usageRemaining' =
              IF usage.same /\ ~usage.frozen
              THEN [usageRemaining EXCEPT !.messages = Num(0)]
              ELSE usageRemaining
    /\ UNCHANGED messageHistory

ExternalMutation ==
    /\ \/ ExternalPush
       \/ \E index \in 0..MaxHistory : ExternalElementAssign(index)
       \/ ExternalUsageAssign
    /\ calls' = Interleave(calls, 0)
    /\ UNCHANGED <<isInitialized, onInitializedCallbacks, shouldEngageTimeCalled,
                   initPc, unsubscribers, now, ticks, storeVars, initLog, initResponse,
                   requests>>
    /\ Quiet

\* Initialization, the history store and a caller that writes to what the
\* getters returned.
NextAccess ==
    \/ InitializeAgent
    \/ HistoryStoreBriefly
    \/ ExternalMutation

SpecAccess == Init /\ [][NextAccess]_vars

\* ------------------------------------------------------- request bodies
\* flag && v, for a boolean flag.
AndThen(flag, v) == IF flag THEN JSONvalue(v) ELSE JSONfalse

\* A value that may be undefined.
Optional(v) == IF v = Null THEN Absent ELSE JSONvalue(v)

\* formatTimestampAgo(timestamp) of getContextString
formatTimestampAgo(timestamp, currentTime) ==
    LET differenceMs == currentTime - timestamp
        seconds == differenceMs \div 1000
        minutes == seconds \div 60
        hours == minutes \div 60
        days == hours \div 24
        Ago(n, unit) ==
            ToString(n) \o " " \o unit \o (IF n # 1 THEN "s" ELSE "") \o " ago"
    IN IF timestamp < 0 THEN ""
       ELSE IF differenceMs < 0 THEN "in the future"
       ELSE IF seconds < 1 THEN "now"
       ELSE IF seconds < 60 THEN Ago(seconds, "second")
       ELSE IF minutes < 60 THEN Ago(minutes, "minute")
       ELSE IF hours < 24 THEN Ago(hours, "hour")
       ELSE Ago(days, "day")

\* getContextString(): for each entry its content, a space, how long ago,
\* a full stop and a space; the text is a sequence of these pieces.
RECURSIVE getContextString(_, _)
getContextString(c, currentTime) ==
    IF c = <<>> THEN <<>>
    ELSE Head(c).content
         \o <<" ", formatTimestampAgo(Head(c).timestamp, currentTime), ".", " ">>
         \o getContextString(Tail(c), currentTime)

\* The body of a request to /message.
MessagePayload(content, history, stream, useContext) ==
    [content |-> JSONvalue(content),
     history |-> AndThen(useMessageHistory, history),
     stream |-> stream,
     context |-> AndThen(useContext, getContextString(context, now))]

\* ------------------------------------------------------------ API calls
\* What a finished call gave its caller: a returned value (<<v>>, or Null for
\* undefined), or a thrown error, named by the operation its message starts
\* with ("message failed") and by what follows.
Pending == [kind |-> "pending", value |-> Null, error |-> "", detail |-> ""]

Return(value) == [kind |-> "return", value |-> value, error |-> "", detail |-> ""]

Throw(error, detail) ==
    [kind |-> "throw", value |-> Null, error |-> error, detail |-> detail]

\* A call at its start.  content, save: the arguments; index: the local
\* assistantMessageIndex; body: what the response stream still holds; buffer,
\* lines, fullMessage: the locals of the stream's read loop.  Observers:
\* emitted (the fragments yielded so far), before (the history when the call
\* started), wire (the response body it was given), interleaved (another
\* history operation ran while it was in flight), at (the time of the call),
\* response (the status and the x-ratelimit-remaining header of the response
\* it received; status 0 while there is none), useContext (the argument of
\* that name, where the caller chose it), received (the data of the 200
\* response to sort).  payload: the request body it built.
NewCall(op, content, save) ==
    [op |-> op, pc |-> "done", content |-> content, save |-> save,
     index |-> Null, body |-> <<>>, buffer |-> <<>>, lines |-> <<>>,
     fullMessage |-> <<>>, emitted |-> <<>>, result |-> Pending,
     before |-> <<>>, wire |-> <<>>, interleaved |-> FALSE, at |-> now,
     response |-> [status |-> 0, header |-> Null], payload |-> NoPayload,
     useContext |-> TRUE, received |-> Null]

\* The call, having received a response: its request is over.
Responded(call, status, header) ==
    [call EXCEPT !.response = [status |-> status, header |-> header],
                 !.payload = NoPayload]

\* A call at its end: its locals are gone.
EndCall(call, result) ==
    [call EXCEPT !.pc = "done", !.result = result, !.content = <<>>,
                 !.body = <<>>, !.buffer = <<>>, !.lines = <<>>, !.before = <<>>,
                 !.payload = NoPayload]

\* The catch block that ends a route: an error whose message holds the
\* route's own prefix is thrown again, any other is wrapped in the route's
\* "unexpected error".
Catch(route, thrown) ==
    IF thrown.error = route THEN thrown ELSE Throw(route, "unexpected error")

\* The x-ratelimit-remaining header: Null when absent, else its number.
RateLimitHeaders == {Null, Num(0), Num(3)}

\* The same, and a header whose text is not a number.
RateLimitHeadersAndNaN == RateLimitHeaders \cup {NaN}

\* this.#usageRemaining.<counter>--
Decrement(counter) == IF counter = Null THEN Num(-1) ELSE Num(counter[1] - 1)

\* "Setting rate limits": the counter after a response with this header.
SetRateLimit(counter, rateLimitRemainingHeader) ==
    LET rateLimitRemaining == NumberOf(rateLimitRemainingHeader)
    IN IF rateLimitRemaining # NaN /\ rateLimitRemainingHeader # Null
       THEN rateLimitRemaining
       ELSE Decrement(counter)

\* "Handling scenarios based on HTTP codes" of message and messageStream for
\* a status other than 200: what the error thrown says.
StatusError(status, rateLimitRemainingHeader) ==
    IF status = 500 THEN "server issues"
    ELSE IF status = 400 THEN "check arguments"
    ELSE IF status = 401 THEN "authorization failed"
    ELSE IF status = 429
        THEN IF NumberOf(rateLimitRemainingHeader) # NaN
                  /\ NumberOf(rateLimitRemainingHeader)[1] <= 0
             THEN "plan limit" ELSE "too many requests"
    ELSE IF status = 502 THEN "external service errors"
    ELSE "something went wrong"

\* The checks message and messageStream make of their arguments: what the
\* error thrown says, "" when they pass.
ContentError(content) ==
    IF ~IsString(content) \/ Length(Trim(content)) = 0
        THEN "content must be a non-empty string"
    ELSE IF Length(content) > MAX_MESSAGE_LENGTH THEN "content exceeds maximum"
    ELSE ""

\* message(content, useContext, saveToMessageHistory) up to its await of
\* fetch.
MessageCall(content, useContext, save) ==
    /\ Len(calls) < MaxCalls
    /\ LET self == Len(calls) + 1
           call == NewCall("message", content, save)
       IN IF ~get_isInitialized
          THEN /\ calls' = Append(calls,
                      EndCall(call, Throw("message failed", "not initialized")))
               /\ UNCHANGED <<messageHistory, requests>>
          ELSE IF ContentError(content) # ""
          THEN /\ calls' = Append(calls,
                      EndCall(call, Throw("message failed", ContentError(content))))
               /\ UNCHANGED <<messageHistory, requests>>
          ELSE LET added == IF save THEN addMessage(messageHistory, content, "user")
                            ELSE Returned(messageHistory, Null)
               IN /\ messageHistory' = added.history
                  /\ requests' = Append(requests, [op |-> "message", at |-> now])
                  /\ calls' = Append(
                         IF save THEN Interleave(calls, self) ELSE calls,
                         [call EXCEPT !.pc = "fetch", !.before = messageHistory,
                                      !.useContext = useContext,
                                      !.payload = MessagePayload(content,
                                          added.history, "false", useContext)])
    /\ UNCHANGED <<isInitialized, usageRemaining, onInitializedCallbacks,
                   shouldEngageTimeCalled, initPc, unsubscribers, now, ticks, contextVars,
                   initLog, initResponse>>
    /\ HistoryNotified(IF messageHistory' # messageHistory
                       THEN <<messageHistory'>> ELSE <<>>)
    /\ storeThrew' = ""

\* message from the settling of fetch to its await of messageRes.json().
MessageFetchSettles(self, transport, status, header) ==
    /\ self \in 1..Len(calls)
    /\ calls[self].op = "message"
    /\ calls[self].pc = "fetch"
    /\ IF ~transport
       THEN /\ calls' = [calls EXCEPT ![self] =
                  EndCall(@, Catch("message failed", Throw("TypeError", "fetch failed")))]
            /\ UNCHANGED usageRemaining
       ELSE /\ usageRemaining' =
                  [usageRemaining EXCEPT
                      !.messages = SetRateLimit(usageRemaining.messages, header)]
            /\ calls' =
                  IF status # 200
                  THEN [calls EXCEPT ![self] =
                          EndCall(Responded(@, status, header),
                              Catch("message failed",
                                  Throw("message failed", StatusError(status, header))))]
                  ELSE [calls EXCEPT ![self] =
                          [Responded(@, status, header) EXCEPT !.pc = "json"]]
    /\ UNCHANGED <<isInitialized, messageHistory, onInitializedCallbacks,
                   shouldEngageTimeCalled, initPc, unsubscribers, now, ticks, storeVars,
                   initLog, initResponse, requests>>
    /\ Quiet

\* message from the body of the 200 response to its end.
MessageJsonSettles(self, output) ==
    /\ self \in 1..Len(calls)
    /\ calls[self].op = "message"
    /\ calls[self].pc = "json"
    /\ LET save == calls[self].save
           added == IF save THEN addMessage(messageHistory, output, "assistant")
                    ELSE Returned(messageHistory, Null)
           result == IF ~IsString(output)
                         THEN Throw("message failed", "unexpected response")
                     ELSE IF ~added.ok
                         THEN Catch("message failed",
                                    Throw("addMessageToHistory failed", added.error))
                     ELSE Return(<<output>>)
           history == IF IsString(output) THEN added.history ELSE messageHistory
       IN /\ messageHistory' = history
          /\ calls' = [(IF history # messageHistory THEN Interleave(calls, self)
                        ELSE calls)
                       EXCEPT ![self] = EndCall([@ EXCEPT !.wire = output], result)]
    /\ UNCHANGED <<isInitialized, usageRemaining, onInitializedCallbacks,
                   shouldEngageTimeCalled, initPc, unsubscribers, now, ticks, contextVars,
                   initLog, initResponse, requests>>
    /\ HistoryNotified(IF messageHistory' # messageHistory
                       THEN <<messageHistory'>> ELSE <<>>)
    /\ storeThrew' = ""

\* Contents the caller passes to message and messageStream.
CallContents == {<<"a">>, <<" ", "a">>, <<" ">>}

\* The `message` field of a 200 body.
Replies == {<<"a">>, <<"a", " ">>, <<"X", "a">>, NotAString}

\* Initialization, the history store and message().
NextMessage ==
    \/ InitializeAgentBriefly
    \/ HistoryStoreBriefly
    \/ \E content \in CallContents, save \in BOOLEAN :
           MessageCall(content, TRUE, save)
    \/ \E self \in 1..MaxCalls, transport \in BOOLEAN, status \in {200, 500},
          header \in {Null, Num(3)} :
           MessageFetchSettles(self, transport, status, header)
    \/ \E self \in 1..MaxCalls, output \in Replies : MessageJsonSettles(self, output)

SpecMessage == Init /\ [][NextMessage]_vars

\* ----------------------------------------------------------- messageStream
\* The response body is text: the characters of strings, the newline, and of
\* JSON the braces, "D" for the member "done":true and "?" for anything that
\* does not belong.  {"message":"<s>","done":false} is written { <s> },
\* {"message":"<s>","done":true} is { <s> D } and {"done":true} is { D }.
NL == "\n"

\* buffer.split('\n')
RECURSIVE Split(_)
Split(text) ==
    IF \E i \in 1..Len(text) : text[i] = NL
    THEN LET i == CHOOSE i \in 1..Len(text) :
                     text[i] = NL /\ \A j \in 1..(i - 1) : text[j] # NL
         IN <<SubSeq(text, 1, i - 1)>> \o Split(SubSeq(text, i + 1, Len(text)))
    ELSE <<text>>

\* JSON.parse(trimmedLine): the chunk, or ok = FALSE when it throws.
JSONparse(text) ==
    LET n == Len(text)
        done == n >= 3 /\ text[n - 1] = "D"
        message == SubSeq(text, 2, IF done THEN n - 2 ELSE n - 1)
    IN IF n >= 2 /\ text[1] = "{" /\ text[n] = "}" /\ IsString(message)
       THEN [ok |-> TRUE, message |-> message, done |-> done]
       ELSE [ok |-> FALSE, message |-> <<>>, done |-> FALSE]

\* "An error occurred while processing your request. Please try again later."
FailureNotice == <<"!">>

\* The for loop over `lines`, from its current line up to the next yield or
\* return, or to its end ("read": the while loop reads again).  An error in
\* the try block of a line, JSON.parse's or modifyMessage's, is caught and the
\* line is left.
RECURSIVE ProcessLines(_, _, _, _, _)
ProcessLines(lines, fullMessage, h, save, index) ==
    IF lines = <<>>
    THEN [outcome |-> "read", lines |-> <<>>, fullMessage |-> fullMessage,
          history |-> h, fragment |-> <<>>]
    ELSE LET trimmedLine == Trim(Head(lines))
             chunk == JSONparse(trimmedLine)
             full == fullMessage \o chunk.message
             modified == IF save THEN modifyMessage(h, index, full, "assistant")
                         ELSE Returned(h, Null)
         IN IF trimmedLine = <<>> \/ ~chunk.ok
            THEN ProcessLines(Tail(lines), fullMessage, h, save, index)
            ELSE IF chunk.message # <<>> /\ ~chunk.done
            THEN IF modified.ok
                 THEN [outcome |-> "yield", lines |-> Tail(lines),
                       fullMessage |-> full, history |-> modified.history,
                       fragment |-> chunk.message]
                 ELSE ProcessLines(Tail(lines), full, h, save, index)
            ELSE IF chunk.done
            THEN [outcome |-> "return", lines |-> <<>>,
                  fullMessage |-> fullMessage, history |-> h, fragment |-> <<>>]
            ELSE ProcessLines(Tail(lines), fullMessage, h, save, index)

\* The stream call after the loop over its lines ran with outcome `p`.
AfterLines(call, p) ==
    IF p.outcome = "return" THEN EndCall(call, Return(<<p.fullMessage>>))
    ELSE [call EXCEPT !.pc = p.outcome, !.lines = p.lines,
                      !.fullMessage = p.fullMessage,
                      !.emitted = IF p.outcome = "yield"
                                  THEN Append(@, p.fragment) ELSE @]

\* The catch block of messageStream for the error `thrown`: the placeholder
\* is overwritten first; if that throws, its error is the one that leaves.
StreamCatch(h, index, thrown) ==
    LET modified == modifyMessage(h, index, FailureNotice, NoRole)
    IN [history |-> modified.history, modified |-> modified.ok,
        result |-> IF modified.ok THEN Catch("messageStream failed", thrown)
                   ELSE Throw("modifyMessage failed", modified.error)]

\* The number of messageStream calls started.
Streams == Cardinality({i \in 1..Len(calls) : calls[i].op = "messageStream"})

\* messageStream(content, useContext, saveToMessageHistory) from the first
\* next() of its consumer up to its await of fetch.
StreamCall(content, useContext, save) ==
    /\ Len(calls) < MaxCalls
    /\ LET self == Len(calls) + 1
           call == NewCall("messageStream", content, save)
       IN IF ~get_isInitialized
          THEN /\ calls' = Append(calls,
                      EndCall(call, Throw("messageStream failed", "not initialized")))
               /\ UNCHANGED <<messageHistory, requests>>
               /\ HistoryNotified(<<>>)
          ELSE IF ContentError(content) # ""
          THEN /\ calls' = Append(calls,
                      EndCall(call, Throw("messageStream failed", ContentError(content))))
               /\ UNCHANGED <<messageHistory, requests>>
               /\ HistoryNotified(<<>>)
          ELSE LET user == IF save THEN addMessage(messageHistory, content, "user")
                           ELSE Returned(messageHistory, Null)
                   placeholder == IF save THEN addMessage(user.history, <<>>, "assistant")
                                  ELSE Returned(user.history, Null)
                   assistantMessageIndex == placeholder.value
                   historyForStream ==
                       IF IsNumber(assistantMessageIndex)
                       THEN Splice1(placeholder.history, assistantMessageIndex[1])
                       ELSE placeholder.history
               IN /\ messageHistory' =
                         IF save
                         THEN [placeholder.history EXCEPT
                                  ![assistantMessageIndex[1] + 1].by = self]
                         ELSE messageHistory
                  /\ HistoryNotified(IF save THEN <<user.history, messageHistory'>>
                                     ELSE <<>>)
                  /\ requests' = Append(requests, [op |-> "messageStream", at |-> now])
                  /\ calls' = Append(
                         IF save THEN Interleave(calls, self) ELSE calls,
                         [call EXCEPT !.pc = "fetch", !.before = messageHistory,
                                      !.index = assistantMessageIndex,
                                      !.useContext = useContext,
                                      !.payload = MessagePayload(content,
                                          historyForStream, "true", useContext)])
    /\ UNCHANGED <<isInitialized, usageRemaining, onInitializedCallbacks,
                   shouldEngageTimeCalled, initPc, unsubscribers, now, ticks, contextVars,
                   initLog, initResponse>>
    /\ storeThrew' = ""

\* The stream call `self`, by now `call`, ends in its catch block with the
\* error `thrown`.
StreamFails(self, call, thrown) ==
    LET caught == StreamCatch(messageHistory, call.index, thrown)
    IN /\ messageHistory' = caught.history
       /\ calls' = [(IF caught.history # messageHistory
                     THEN Interleave(calls, self) ELSE calls)
                    EXCEPT ![self] = EndCall(call, caught.result)]
       /\ HistoryNotified(IF caught.modified THEN <<caught.history>> ELSE <<>>)

\* messageStream from the settling of fetch to its first reader.read().
StreamFetchSettles(self, transport, status, header, wire) ==
    /\ self \in 1..Len(calls)
    /\ calls[self].op = "messageStream"
    /\ calls[self].pc = "fetch"
    /\ IF ~transport
       THEN /\ StreamFails(self, calls[self], Throw("TypeError", "fetch failed"))
            /\ UNCHANGED usageRemaining
       ELSE /\ usageRemaining' =
                  [usageRemaining EXCEPT
                      !.messages = SetRateLimit(usageRemaining.messages, header)]
            /\ IF status # 200
               THEN StreamFails(self, Responded(calls[self], status, header),
                                Throw("messageStream failed",
                                      StatusError(status, header)))
               ELSE /\ calls' = [calls EXCEPT ![self] =
                                    [Responded(@, status, header) EXCEPT
                                        !.pc = "read", !.body = wire,
                                        !.wire = wire]]
                    /\ UNCHANGED messageHistory
                    /\ HistoryNotified(<<>>)
    /\ UNCHANGED <<isInitialized, onInitializedCallbacks, shouldEngageTimeCalled,
                   initPc, unsubscribers, now, ticks, contextVars, initLog, initResponse,
                   requests>>
    /\ storeThrew' = ""

\* The loop of the stream call `self` goes on over `lines`.
StreamProcesses(self, lines, buffer, body) ==
    LET call == calls[self]
        p == ProcessLines(lines, call.fullMessage, messageHistory, call.save,
                          call.index)
    IN /\ messageHistory' = p.history
       /\ calls' = [(IF p.history # messageHistory
                     THEN Interleave(calls, self) ELSE calls)
                    EXCEPT ![self] =
                        AfterLines([@ EXCEPT !.buffer = buffer, !.body = body], p)]
       /\ HistoryNotified(IF p.outcome = "yield" /\ call.save
                          THEN <<p.history>> ELSE <<>>)

\* reader.read() settles: it rejects (size = -1), or the body is at its end
\* and it answers done, or it hands over the next `size` characters.
StreamReadSettles(self, size) ==
    /\ self \in 1..Len(calls)
    /\ calls[self].op = "messageStream"
    /\ calls[self].pc = "read"
    /\ LET call == calls[self]
       IN IF size = -1
          THEN StreamFails(self, call, Throw("TypeError", "read failed"))
          ELSE IF call.body = <<>>
          THEN /\ size = 0
               /\ calls' = [calls EXCEPT ![self] = EndCall(@, Return(Null))]
               /\ UNCHANGED messageHistory
               /\ HistoryNotified(<<>>)
          ELSE /\ size \in 1..Len(call.body)
               /\ LET lines == Split(call.buffer \o SubSeq(call.body, 1, size))
                  IN StreamProcesses(self,
                         SubSeq(lines, 1, Len(lines) - 1), lines[Len(lines)],
                         SubSeq(call.body, size + 1, Len(call.body)))
    /\ UNCHANGED <<isInitialized, usageRemaining, onInitializedCallbacks,
                   shouldEngageTimeCalled, initPc, unsubscribers, now, ticks, contextVars,
                   initLog, initResponse, requests>>
    /\ storeThrew' = ""

\* The consumer's next() after a yield.
StreamNext(self) ==
    /\ self \in 1..Len(calls)
    /\ calls[self].op = "messageStream"
    /\ calls[self].pc = "yield"
    /\ StreamProcesses(self, calls[self].lines, calls[self].buffer, calls[self].body)
    /\ UNCHANGED <<isInitialized, usageRemaining, onInitializedCallbacks,
                   shouldEngageTimeCalled, initPc, unsubscribers, now, ticks, contextVars,
                   initLog, initResponse, requests>>
    /\ storeThrew' = ""

\* Bodies of a 200 streaming response.
Wires ==
    {<<"{", "a", "}", NL, "{", "a", " ", "}", NL, "{", "D", "}", NL>>,
     <<"{", " ", "}", NL, "{", "a", "}", NL, "{", "D", "}", NL>>,
     <<"{", "X", "}", NL, "{", "a", "}", NL, "{", "D", "}", NL>>,
     <<"?", NL, "{", "a", "}", NL, "{", "D", "}", NL, "{", "a", "}", NL>>,
     <<"{", "a", "}", NL>>,
     <<"{", "D", "}", NL>>}

\* The longest body.
MaxWire == 14

\* Initialization, the history store and messageStream().
NextStream ==
    \/ InitializeAgentBriefly
    \/ HistoryStoreBriefly
    \/ \E content \in CallContents, save \in BOOLEAN :
           Streams < MaxStreams /\ StreamCall(content, TRUE, save)
    \/ \E self \in 1..MaxCalls, transport \in BOOLEAN, status \in {200, 500},
          header \in {Null, Num(3)}, wire \in Wires :
           StreamFetchSettles(self, transport, status, header, wire)
    \/ \E self \in 1..MaxCalls, size \in -1..MaxWire : StreamReadSettles(self, size)
    \/ \E self \in 1..MaxCalls : StreamNext(self)

SpecStream == Init /\ [][NextStream]_vars

\* ------------------------------------------------------------ shouldEngage
\* new Date().getTime() moves on by `step` milliseconds.
Tick(step) ==
    /\ ticks < MaxTicks
    /\ now' = now + step
    /\ ticks' = ticks + 1
    /\ UNCHANGED <<agentVars, initPc, unsubscribers, calls, initLog,
                   initResponse, requests, storeVars>>
    /\ Quiet

ThrottledShort(currentTime, timeCalled) ==
    (currentTime - timeCalled) < SHOULD_ENGAGE_THROTTLING_MS - 1

\* The condition of the throttling branch.
Throttled(currentTime, timeCalled) ==
    (currentTime - timeCalled) < SHOULD_ENGAGE_THROTTLING_MS

\* What a throttled call returns; the booleans of an engagement result are
\* written "true" and "false", and a warning that is absent "".
ThrottledResult ==
    [shouldEngage |-> "false", reasoning |-> <<>>,
     warning |-> "Throttling in effect", fallback |-> "true"]

\* The check of the argument `instructions`; Null is undefined.
InstructionsError(instructions) ==
    IF instructions = Null THEN ""
    ELSE IF ~IsString(instructions) \/ Length(Trim(instructions)) = 0
        THEN "instructions must be a non-empty string if provided"
    ELSE IF Length(instructions) > MAX_MESSAGE_LENGTH
        THEN "instructions exceeds maximum allowed length"
    ELSE ""

\* The number of shouldEngage calls started.
Engages == Cardinality({i \in 1..Len(calls) : calls[i].op = "shouldEngage"})

\* A variant of ShouldEngageCall that records the call time once the
\* arguments have passed their check.
ShouldEngageCallRecordsLate(instructions) ==
    /\ Engages < MaxEngages
    /\ LET currentTime == now
           call == NewCall("shouldEngage", instructions, FALSE)
       IN IF Throttled(currentTime, shouldEngageTimeCalled)
          THEN /\ calls' = Append(calls, EndCall(call, Return(<<ThrottledResult>>)))
               /\ UNCHANGED <<shouldEngageTimeCalled, requests>>
          ELSE IF InstructionsError(instructions) # ""
               THEN /\ calls' = Append(calls, EndCall(call,
                           Throw("shouldEngage failed",
                                 InstructionsError(instructions))))
                    /\ UNCHANGED <<shouldEngageTimeCalled, requests>>
               ELSE /\ shouldEngageTimeCalled' = currentTime
                    /\ calls' = Append(calls, [call EXCEPT !.pc = "fetch"])
                    /\ requests' = Append(requests,
                           [op |-> "shouldEngage", at |-> now])
    /\ UNCHANGED <<isInitialized, usageRemaining, messageHistory,
                   onInitializedCallbacks, initPc, unsubscribers, now, ticks, storeVars,
                   initLog, initResponse>>
    /\ Quiet

\* shouldEngage(instructions) up to its await of fetch.
ShouldEngageCall(instructions) ==
    /\ Engages < MaxEngages
    /\ LET currentTime == now
           call == NewCall("shouldEngage", instructions, FALSE)
       IN IF Throttled(currentTime, shouldEngageTimeCalled)
          THEN /\ calls' = Append(calls, EndCall(call, Return(<<ThrottledResult>>)))
               /\ UNCHANGED <<shouldEngageTimeCalled, requests>>
          ELSE /\ shouldEngageTimeCalled' = currentTime
               /\ IF InstructionsError(instructions) # ""
                  THEN /\ calls' = Append(calls, EndCall(call,
                              Throw("shouldEngage failed",
                                    InstructionsError(instructions))))
                       /\ UNCHANGED requests
                  ELSE /\ calls' = Append(calls, [call EXCEPT !.pc = "fetch"])
                       /\ requests' = Append(requests,
                              [op |-> "shouldEngage", at |-> now])
    /\ UNCHANGED <<isInitialized, usageRemaining, messageHistory,
                   onInitializedCallbacks, initPc, unsubscribers, now, ticks, storeVars,
                   initLog, initResponse>>
    /\ Quiet

\* The error of a should-engage response with a status other than 200.
EngageStatusError(status) ==
    CASE status = 400 -> "invalid arguments"
      [] status = 401 -> "authorization failed"
      [] status = 500 -> "server issues"
      [] status = 502 -> "external service error"
      [] OTHER -> "unexpected error (HTTP " \o ToString(status) \o ")"

\* shouldEngage from the settling of fetch to its await of json().
ShouldEngageFetchSettles(self, transport, status) ==
    /\ self \in 1..Len(calls)
    /\ calls[self].op = "shouldEngage"
    /\ calls[self].pc = "fetch"
    /\ calls' = [calls EXCEPT ![self] =
           IF ~transport
           THEN EndCall(@, Catch("shouldEngage failed",
                                 Throw("TypeError", "fetch failed")))
           ELSE IF status # 200
           THEN EndCall(Responded(@, status, Null),
                        Catch("shouldEngage failed",
                              Throw("shouldEngage failed", EngageStatusError(status))))
           ELSE [Responded(@, status, Null) EXCEPT !.pc = "json"]]
    /\ UNCHANGED <<agentVars, initPc, unsubscribers, now, ticks, storeVars, initLog,
                   initResponse, requests>>
    /\ Quiet

\* The check of the shape of the response data.
EngageShaped(data) ==
    /\ data.shouldEngage \in {"true", "false"}
    /\ IsString(data.reasoning)
    /\ data.fallback \in {"true", "false"}

\* shouldEngage from the settling of json() to its end.
ShouldEngageJsonSettles(self, data) ==
    /\ self \in 1..Len(calls)
    /\ calls[self].op = "shouldEngage"
    /\ calls[self].pc = "json"
    /\ calls' = [calls EXCEPT ![self] =
           IF EngageShaped(data) THEN EndCall(@, Return(<<data>>))
           ELSE EndCall(@, Catch("shouldEngage failed",
                    Throw("shouldEngage failed", "unexpected response")))]
    /\ UNCHANGED <<agentVars, initPc, unsubscribers, now, ticks, storeVars, initLog,
                   initResponse, requests>>
    /\ Quiet

\* Steps of the clock: a millisecond, and two that together fall one
\* millisecond short of the throttling window.
TickSteps == {1, (SHOULD_ENGAGE_THROTTLING_MS \div 2) - 1,
              SHOULD_ENGAGE_THROTTLING_MS \div 2}

EngageInstructions == {Null, <<"a">>, <<" ">>}

EngageData ==
    {[shouldEngage |-> "true", reasoning |-> <<"a">>, warning |-> "",
      fallback |-> "false"],
     [shouldEngage |-> "nope", reasoning |-> <<"a">>, warning |-> "",
      fallback |-> "false"]}

\* Initialization, the clock and shouldEngage().
NextEngage ==
    \/ InitializeAgentBriefly
    \/ \E step \in TickSteps : Tick(step)
    \/ \E instructions \in EngageInstructions : ShouldEngageCall(instructions)
    \/ \E self \in 1..MaxEngages, transport \in BOOLEAN, status \in {200, 500} :
           ShouldEngageFetchSettles(self, transport, status)
    \/ \E self \in 1..MaxEngages, data \in EngageData :
           ShouldEngageJsonSettles(self, data)

SpecEngage == Init /\ [][NextEngage]_vars

\* ------------------------------------------------------------------ greet
\* The checks greet makes of `instructions`; Null is undefined.
GreetInstructionsError(instructions) ==
    IF instructions # Null /\ (~IsString(instructions)
                               \/ Length(Trim(instructions)) = 0)
        THEN "instructions must be a non-empty string if provided"
    ELSE IF instructions # Null /\ Length(instructions) > MAX_MESSAGE_LENGTH
        THEN "instructions exceeds maximum allowed length"
    ELSE ""

\* The prompt greet sends as the content of its message: "G" for each of
\* its sentences.
effectiveInstructions(instructions, useContext) ==
    (IF instructions # Null /\ instructions # <<>>
     THEN <<"G">> \o instructions
     ELSE <<"G">> \o (IF useContext THEN <<"G">> ELSE <<>>))
    \o (IF useMessageHistory /\ Len(messageHistory) > 0
        THEN <<"G">> ELSE <<>>)

\* An error of message() as greet's catch throws it again.
GreetCatch(thrown) == Throw("greet failed", thrown.error \o ": " \o thrown.detail)

\* greet(instructions, useContext, saveToMessageHistory) up to the await of
\* fetch in the message(effectiveInstructions, true, false) it calls.
GreetCall(instructions, useContext, save) ==
    /\ Len(calls) < MaxCalls
    /\ LET call == NewCall("greet", instructions, save)
       IN IF GreetInstructionsError(instructions) # ""
          THEN /\ calls' = Append(calls, EndCall(call,
                      Throw("greet failed", GreetInstructionsError(instructions))))
               /\ UNCHANGED requests
          ELSE IF ~get_isInitialized
          THEN /\ calls' = Append(calls, EndCall(call,
                      GreetCatch(Throw("message failed", "not initialized"))))
               /\ UNCHANGED requests
          ELSE IF ContentError(effectiveInstructions(instructions, useContext)) # ""
          THEN /\ calls' = Append(calls, EndCall(call,
                      GreetCatch(Throw("message failed",
                          ContentError(effectiveInstructions(instructions,
                                                             useContext))))))
               /\ UNCHANGED requests
          ELSE /\ requests' = Append(requests, [op |-> "message", at |-> now])
               /\ calls' = Append(calls,
                      [call EXCEPT !.pc = "fetch", !.before = messageHistory,
                                   !.payload = MessagePayload(
                                       effectiveInstructions(instructions, useContext),
                                       messageHistory, "false", TRUE)])
    /\ UNCHANGED <<agentVars, initPc, unsubscribers, now, ticks, initLog,
                   initResponse, storeVars>>
    /\ Quiet

\* greet from the settling of that fetch to the await of json().
GreetFetchSettles(self, transport, status, header) ==
    /\ self \in 1..Len(calls)
    /\ calls[self].op = "greet"
    /\ calls[self].pc = "fetch"
    /\ IF ~transport
       THEN /\ calls' = [calls EXCEPT ![self] =
                  EndCall(@, GreetCatch(Catch("message failed",
                                              Throw("TypeError", "fetch failed"))))]
            /\ UNCHANGED usageRemaining
       ELSE /\ usageRemaining' =
                  [usageRemaining EXCEPT
                      !.messages = SetRateLimit(usageRemaining.messages, header)]
            /\ calls' =
                  IF status # 200
                  THEN [calls EXCEPT ![self] =
                          EndCall(Responded(@, status, header),
                              GreetCatch(Throw("message failed",
                                               StatusError(status, header))))]
                  ELSE [calls EXCEPT ![self] =
                          [Responded(@, status, header) EXCEPT !.pc = "json"]]
    /\ UNCHANGED <<isInitialized, messageHistory, onInitializedCallbacks,
                   shouldEngageTimeCalled, initPc, unsubscribers, now, ticks,
                   initLog, initResponse, requests, storeVars>>
    /\ Quiet

\* greet from the body of the 200 response to its end: message returns the
\* output without saving it, and greet adds it to the history.
GreetJsonSettles(self, output) ==
    /\ self \in 1..Len(calls)
    /\ calls[self].op = "greet"
    /\ calls[self].pc = "json"
    /\ LET added == addMessage(messageHistory, output, "assistant")
           result == IF ~IsString(output)
                         THEN GreetCatch(Throw("message failed", "unexpected response"))
                     ELSE IF ~added.ok
                         THEN GreetCatch(Throw("addMessageToHistory failed", added.error))
                     ELSE Return(<<output>>)
           history == IF IsString(output) THEN added.history ELSE messageHistory
       IN /\ messageHistory' = history
          /\ calls' = [(IF history # messageHistory THEN Interleave(calls, self)
                        ELSE calls)
                       EXCEPT ![self] = EndCall([@ EXCEPT !.wire = output], result)]
          /\ HistoryNotified(IF history # messageHistory THEN <<history>> ELSE <<>>)
    /\ UNCHANGED <<isInitialized, usageRemaining, onInitializedCallbacks,
                   shouldEngageTimeCalled, initPc, unsubscribers, now, ticks,
                   initLog, initResponse, requests, contextVars>>
    /\ storeThrew' = ""

\* ---------------------------------------------------------------- rewrite
\* The checks rewrite makes of its arguments; Null is undefined.
RewriteArgumentsError(content, instructions) ==
    IF ~IsString(content) \/ Length(Trim(content)) = 0
        THEN "content must be a non-empty string"
    ELSE IF Length(content) > MAX_MESSAGE_LENGTH THEN "content exceeds maximum"
    ELSE IF instructions # Null /\ ~IsString(instructions)
        THEN "instructions must be a string if provided"
    ELSE IF instructions # Null /\ Length(instructions) > MAX_MESSAGE_LENGTH
        THEN "instructions exceeds maximum allowed length"
    ELSE ""

\* The body of a request to /rewrite.
RewritePayload(content, instructions, useContext) ==
    [text |-> JSONvalue(content),
     instructions |-> Optional(instructions),
     context |-> AndThen(useContext, getContextString(context, now))]

\* A variant of RewriteCall that sends its request before it checks its
\* arguments.
RewriteCallChecksLate(content, instructions, useContext) ==
    /\ Len(calls) < MaxCalls
    /\ LET call == NewCall("rewrite", content, FALSE)
       IN /\ requests' = Append(requests, [op |-> "rewrite", at |-> now])
          /\ calls' = Append(calls,
                 IF RewriteArgumentsError(content, instructions) # ""
                 THEN EndCall(call, Throw("rewrite failed",
                                          RewriteArgumentsError(content, instructions)))
                 ELSE [call EXCEPT !.pc = "fetch",
                                   !.payload = RewritePayload(content, instructions,
                                                              useContext)])
    /\ UNCHANGED <<agentVars, initPc, unsubscribers, now, ticks, initLog,
                   initResponse, storeVars>>
    /\ Quiet

\* rewrite(content, instructions, useContext) up to its await of fetch.
RewriteCall(content, instructions, useContext) ==
    /\ Len(calls) < MaxCalls
    /\ LET call == NewCall("rewrite", content, FALSE)
       IN IF RewriteArgumentsError(content, instructions) # ""
          THEN /\ calls' = Append(calls, EndCall(call,
                      Throw("rewrite failed",
                            RewriteArgumentsError(content, instructions))))
               /\ UNCHANGED requests
          ELSE /\ calls' = Append(calls,
                      [call EXCEPT !.pc = "fetch",
                                   !.payload = RewritePayload(content, instructions,
                                                              useContext)])
               /\ requests' = Append(requests, [op |-> "rewrite", at |-> now])
    /\ UNCHANGED <<agentVars, initPc, unsubscribers, now, ticks, initLog,
                   initResponse, storeVars>>
    /\ Quiet

\* "Handling scenarios based on HTTP codes" of rewrite and sort for a status
\* other than 200: what the error thrown says.
RouteStatusError(status, rateLimitRemainingHeader) ==
    IF status = 400 THEN "invalid arguments"
    ELSE IF status = 401 THEN "authorization failed"
    ELSE IF status = 429
        THEN IF NumberOf(rateLimitRemainingHeader) # NaN
                  /\ NumberOf(rateLimitRemainingHeader)[1] <= 0
             THEN "plan limit" ELSE "too many requests"
    ELSE IF status = 500 THEN "server issues"
    ELSE IF status = 502 THEN "external service error"
    ELSE "unexpected error (HTTP " \o ToString(status) \o ")"

\* rewrite from the settling of fetch to its await of rewriteRes.json().
RewriteFetchSettles(self, transport, status, header) ==
    /\ self \in 1..Len(calls)
    /\ calls[self].op = "rewrite"
    /\ calls[self].pc = "fetch"
    /\ IF ~transport
       THEN /\ calls' = [calls EXCEPT ![self] =
                  EndCall(@, Catch("rewrite failed", Throw("TypeError", "fetch failed")))]
            /\ UNCHANGED usageRemaining
       ELSE /\ usageRemaining' =
                  [usageRemaining EXCEPT
                      !.rewrites = SetRateLimit(usageRemaining.rewrites, header)]
            /\ calls' =
                  IF status # 200
                  THEN [calls EXCEPT ![self] =
                          EndCall(Responded(@, status, header),
                              Catch("rewrite failed",
                                  Throw("rewrite failed",
                                        RouteStatusError(status, header))))]
                  ELSE [calls EXCEPT ![self] =
                          [Responded(@, status, header) EXCEPT !.pc = "json"]]
    /\ UNCHANGED <<isInitialized, messageHistory, onInitializedCallbacks,
                   shouldEngageTimeCalled, initPc, unsubscribers, now, ticks,
                   initLog, initResponse, requests, storeVars>>
    /\ Quiet

\* rewrite from the body of the 200 response to its end; text is the member
\* `text` of the body.
RewriteJsonSettles(self, text) ==
    /\ self \in 1..Len(calls)
    /\ calls[self].op = "rewrite"
    /\ calls[self].pc = "json"
    /\ calls' = [calls EXCEPT ![self] =
           IF IsString(text) THEN EndCall(@, Return(<<text>>))
           ELSE EndCall(@, Catch("rewrite failed",
                    Throw("rewrite failed", "unexpected response")))]
    /\ UNCHANGED <<agentVars, initPc, unsubscribers, now, ticks, initLog,
                   initResponse, requests, storeVars>>
    /\ Quiet

\* ------------------------------------------------------------------- sort
\* A JavaScript value that may be an array: whether it is one, and its
\* elements.  An element of the array to sort is a string naming it; an
\* element of `indexes` is Num(i) for the integer i and NaN for anything else.
\* array.map((item, index) => index)
Identity(items) == [i \in 1..Len(items) |-> Num(i - 1)]

\* What sort returns for an input it does not send.
SortFallback(array) ==
    [array |-> Absent,
     indexes |-> IF array.isArray THEN Identity(array.items) ELSE <<>>,
     reasoning |-> Absent,
     warning |-> JSONvalue("Input array is invalid or too short to sort"),
     fallback |-> "true"]

\* array[index], "#undefined" where the array has no such element.
ElementAt(items, index) ==
    IF IsNumber(index) /\ index # NaN /\ index[1] \in 0..(Len(items) - 1)
    THEN items[index[1] + 1] ELSE "#undefined"

\* The array as it was given, whatever the indexes.
GatherNothing(items, indexes) == items

\* sortData.indexes.map(index => array[index])
Gather(items, indexes) ==
    [i \in 1..Len(indexes) |-> ElementAt(items, indexes[i])]

\* The check of the shape of the response data.
SortShaped(data) ==
    /\ data.indexes.isArray
    /\ \A i \in 1..Len(data.indexes.items) : data.indexes.items[i] # NaN
    /\ IsString(data.reasoning)

\* What sort returns for a response of the right shape and length.
SortResult(items, data) ==
    [array |-> JSONvalue(Gather(items, data.indexes.items)),
     indexes |-> data.indexes.items,
     reasoning |-> JSONvalue(data.reasoning),
     warning |-> Absent,
     fallback |-> IF data.fallback \in {"true", "false"} THEN data.fallback
                  ELSE "false"]

\* The body of a request to /sort.
SortPayload(items, instructions, useContext) ==
    [array |-> JSONvalue(items),
     instructions |-> Optional(instructions),
     context |-> AndThen(useContext, getContextString(context, now))]

\* sort(array, instructions, useContext) up to its await of fetch.  The
\* observer `wire` of a sort call holds the array it was given.
SortCall(array, instructions, useContext) ==
    /\ Len(calls) < MaxCalls
    /\ LET call == [NewCall("sort", array.items, FALSE) EXCEPT !.wire = array]
       IN IF ~array.isArray \/ Len(array.items) < 2
          THEN /\ calls' = Append(calls,
                      EndCall(call, Return(<<SortFallback(array)>>)))
               /\ UNCHANGED requests
          ELSE IF instructions # Null /\ ~IsString(instructions)
          THEN /\ calls' = Append(calls, EndCall(call,
                      Throw("sort failed", "instructions must be a string if provided")))
               /\ UNCHANGED requests
          ELSE /\ calls' = Append(calls,
                      [call EXCEPT !.pc = "fetch",
                                   !.payload = SortPayload(array.items, instructions,
                                                           useContext)])
               /\ requests' = Append(requests, [op |-> "sort", at |-> now])
    /\ UNCHANGED <<agentVars, initPc, unsubscribers, now, ticks, initLog,
                   initResponse, storeVars>>
    /\ Quiet

\* "Setting rate limits" of sort: isNaN is asked of
\* (rateLimitRemaining && rateLimitRemainingHeader !== null), which is NaN
\* only when rateLimitRemaining is.
SortSetRateLimit(counter, rateLimitRemainingHeader) ==
    LET rateLimitRemaining == NumberOf(rateLimitRemainingHeader)
    IN IF rateLimitRemaining # NaN THEN rateLimitRemaining
       ELSE Decrement(counter)

\* sort from the settling of fetch to its await of sortRes.json().
SortFetchSettles(self, transport, status, header) ==
    /\ self \in 1..Len(calls)
    /\ calls[self].op = "sort"
    /\ calls[self].pc = "fetch"
    /\ IF ~transport
       THEN /\ calls' = [calls EXCEPT ![self] =
                  EndCall(@, Catch("sort failed", Throw("TypeError", "fetch failed")))]
            /\ UNCHANGED usageRemaining
       ELSE /\ usageRemaining' =
                  [usageRemaining EXCEPT
                      !.sorts = SortSetRateLimit(usageRemaining.sorts, header)]
            /\ calls' =
                  IF status # 200
                  THEN [calls EXCEPT ![self] =
                          EndCall(Responded(@, status, header),
                              Catch("sort failed",
                                  Throw("sort failed",
                                        RouteStatusError(status, header))))]
                  ELSE [calls EXCEPT ![self] =
                          [Responded(@, status, header) EXCEPT !.pc = "json"]]
    /\ UNCHANGED <<isInitialized, messageHistory, onInitializedCallbacks,
                   shouldEngageTimeCalled, initPc, unsubscribers, now, ticks,
                   initLog, initResponse, requests, storeVars>>
    /\ Quiet

\* sort from the body of the 200 response to its end.
SortJsonSettles(self, data) ==
    /\ self \in 1..Len(calls)
    /\ calls[self].op = "sort"
    /\ calls[self].pc = "json"
    /\ LET array == calls[self].content
           result ==
              IF ~SortShaped(data)
              THEN Catch("sort failed", Throw("sort failed", "unexpected response"))
              ELSE IF Len(data.indexes.items) # Len(array)
              THEN Catch("sort failed",
                         Throw("sort failed", "indexes length does not match"))
              ELSE Return(<<SortResult(array, data)>>)
       IN calls' = [calls EXCEPT ![self] =
                       EndCall([@ EXCEPT !.received = data], result)]
    /\ UNCHANGED <<agentVars, initPc, unsubscribers, now, ticks, initLog,
                   initResponse, requests, storeVars>>
    /\ Quiet

\* ------------------------------------------------------------ all routes
\* The statuses of the responses: those the routes name, and one they do not.
RouteStatuses == {200, 400, 401, 404, 429, 500, 502}

\* The arrays given to sort, and the instructions given to rewrite and sort.
SortArrays == {NotAnArray, ArrayOf(<<"a">>), ArrayOf(<<"a", "b">>)}

RouteInstructions == {Null, <<"a">>, NotAString}

\* The bodies of the 200 responses to /sort.
SortData ==
    {[indexes |-> ArrayOf(<<Num(1), Num(0)>>), reasoning |-> <<"a">>,
      fallback |-> "nope"],
     [indexes |-> ArrayOf(<<Num(0), Num(0)>>), reasoning |-> <<"a">>,
      fallback |-> "true"],
     [indexes |-> ArrayOf(<<Num(0)>>), reasoning |-> <<"a">>,
      fallback |-> "false"],
     [indexes |-> ArrayOf(<<Num(2), Num(0)>>), reasoning |-> <<"a">>,
      fallback |-> "false"],
     [indexes |-> ArrayOf(<<NaN, Num(0)>>), reasoning |-> <<"a">>,
      fallback |-> "false"],
     [indexes |-> NotAnArray, reasoning |-> NotAString, fallback |-> "false"]}

\* The body of the response to a stream: a fragment and the end.
RouteWire == <<"{", "a", "}", NL, "{", "D", "}", NL>>

\* The number of calls of the routes in one behaviour of SpecRoutes.
MaxRouteCalls == 1

\* Initialization and every route, for an agent constructed with either
\* value of useMessageHistory.
NextRoutes ==
    \/ InitializeAgentBriefly
    \/ \E useContext \in BOOLEAN, save \in BOOLEAN :
           Len(calls) < MaxRouteCalls /\ MessageCall(<<"a">>, useContext, save)
    \/ \E self \in 1..MaxCalls, transport \in BOOLEAN, status \in RouteStatuses,
          header \in RateLimitHeadersAndNaN :
           MessageFetchSettles(self, transport, status, header)
    \/ \E self \in 1..MaxCalls, output \in {<<"a">>, NotAString} :
           MessageJsonSettles(self, output)
    \/ \E useContext \in BOOLEAN, save \in BOOLEAN :
           Len(calls) < MaxRouteCalls /\ StreamCall(<<"a">>, useContext, save)
    \/ \E self \in 1..MaxCalls, transport \in BOOLEAN, status \in RouteStatuses,
          header \in RateLimitHeadersAndNaN :
           StreamFetchSettles(self, transport, status, header, RouteWire)
    \/ \E self \in 1..MaxCalls : StreamReadSettles(self, Len(RouteWire))
    \/ \E self \in 1..MaxCalls : StreamNext(self)
    \/ \E instructions \in {Null, <<"a">>}, useContext \in BOOLEAN, save \in BOOLEAN :
           Len(calls) < MaxRouteCalls /\ GreetCall(instructions, useContext, save)
    \/ \E self \in 1..MaxCalls, transport \in BOOLEAN, status \in RouteStatuses,
          header \in RateLimitHeadersAndNaN :
           GreetFetchSettles(self, transport, status, header)
    \/ \E self \in 1..MaxCalls, output \in {<<"a">>, NotAString} :
           GreetJsonSettles(self, output)
    \/ \E instructions \in RouteInstructions, useContext \in BOOLEAN :
           Len(calls) < MaxRouteCalls /\ RewriteCall(<<"a">>, instructions, useContext)
    \/ \E self \in 1..MaxCalls, transport \in BOOLEAN, status \in RouteStatuses,
          header \in RateLimitHeadersAndNaN :
           RewriteFetchSettles(self, transport, status, header)
    \/ \E self \in 1..MaxCalls, text \in {<<"a">>, NotAString} :
           RewriteJsonSettles(self, text)
    \/ \E array \in SortArrays, instructions \in RouteInstructions,
          useContext \in BOOLEAN :
           Len(calls) < MaxRouteCalls /\ SortCall(array, instructions, useContext)
    \/ \E self \in 1..MaxCalls, transport \in BOOLEAN, status \in RouteStatuses,
          header \in RateLimitHeadersAndNaN :
           SortFetchSettles(self, transport, status, header)
    \/ \E self \in 1..MaxCalls, data \in SortData : SortJsonSettles(self, data)
    \/ Len(calls) < MaxRouteCalls /\ ShouldEngageCall(Null)
    \/ \E self \in 1..MaxCalls, transport \in BOOLEAN, status \in RouteStatuses :
           ShouldEngageFetchSettles(self, transport, status)
    \/ \E self \in 1..MaxCalls, data \in EngageData :
           ShouldEngageJsonSettles(self, data)

SpecRoutes == InitOptions /\ [][NextRoutes]_vars

\* ---------------------------------------------------------- context store
\* The check of the argument `timestamp`: Null is undefined, NaN stands for a
\* number that is not finite.
TimestampError(timestamp) ==
    timestamp # Null /\ (~IsNumber(timestamp) \/ timestamp = NaN \/ timestamp[1] < 0)

\* timestamp ?? other
OrElse(timestamp, other) == IF timestamp # Null THEN timestamp[1] ELSE other

\* A variant of addContextEntry that does not check the length.
addContextEntryAnyLength(c, content, timestamp, currentTime) ==
    IF ~IsString(content) \/ Length(Trim(content)) = 0
        THEN Thrown("addContextEntry failed: content must be a non-empty string", c)
    ELSE IF TimestampError(timestamp)
        THEN Thrown("addContextEntry failed: timestamp", c)
    ELSE LET newArrayLength == Len(c) + 1
         IN Returned(Append(c, [content |-> Trim(content),
                                timestamp |-> OrElse(timestamp, currentTime)]),
                     Num(newArrayLength - 1))

\* addContextEntry(content, timestamp), the context being c
addContextEntry(c, content, timestamp, currentTime) ==
    IF ~IsString(content) \/ Length(Trim(content)) = 0
        THEN Thrown("addContextEntry failed: content must be a non-empty string", c)
    ELSE IF Length(content) > MAX_CONTEXT_ENTRY_LENGTH
        THEN Thrown("addContextEntry failed: content exceeds maximum", c)
    ELSE IF TimestampError(timestamp)
        THEN Thrown("addContextEntry failed: timestamp", c)
    ELSE LET newArrayLength == Len(c) + 1
         IN Returned(Append(c, [content |-> Trim(content),
                                timestamp |-> OrElse(timestamp, currentTime)]),
                     Num(newArrayLength - 1))

\* A variant of removeContextEntry that does not check the upper bound.
removeContextEntryUnbounded(c, index) ==
    IF ~IsNumber(index) \/ index[1] < 0
        THEN Thrown("removeContextEntry failed: index must be a number", c)
    ELSE Returned(Splice1(c, index[1]), Null)

\* removeContextEntry(index)
removeContextEntry(c, index) ==
    IF ~IsNumber(index) \/ index[1] < 0
        THEN Thrown("removeContextEntry failed: index must be a number", c)
    ELSE IF index[1] > Len(c) - 1
        THEN Thrown("removeContextEntry failed: index out of bounds", c)
    ELSE Returned(Splice1(c, index[1]), Null)

\* modifyContextEntry(index, content, timestamp)
modifyContextEntry(c, index, content, timestamp) ==
    IF ~IsNumber(index) \/ index[1] < 0
        THEN Thrown("modifyContextEntry failed: index must be a number", c)
    ELSE IF index[1] > Len(c) - 1
        THEN Thrown("modifyContextEntry failed: index out of bounds", c)
    ELSE IF ~IsString(content) \/ Length(Trim(content)) = 0
        THEN Thrown("modifyContextEntry failed: content must be a non-empty string", c)
    ELSE IF Length(content) > MAX_CONTEXT_ENTRY_LENGTH
        THEN Thrown("modifyContextEntry failed: content exceeds maximum", c)
    ELSE IF TimestampError(timestamp)
        THEN Thrown("modifyContextEntry failed: timestamp", c)
    ELSE Returned(
           [c EXCEPT ![index[1] + 1] =
               [content |-> Trim(content),
                timestamp |-> OrElse(timestamp, c[index[1] + 1].timestamp)]],
           Null)

\* One element of the argument of setContext passes its check.
ValidContextEntry(entry) ==
    /\ IsString(entry.content)
    /\ Length(Trim(entry.content)) > 0
    /\ Length(entry.content) <= MAX_CONTEXT_ENTRY_LENGTH
    /\ ~TimestampError(entry.timestamp)

\* setContext(contextArray).  The loop goes through the entries in order: an
\* invalid one throws the validation error; a valid one with a timestamp
\* reaches `timestamp > now`, where no `timestamp` is in scope, which throws
\* a ReferenceError.
setContext(c, contextArray, currentTime) ==
    IF ~contextArray.isArray
        THEN Thrown("setContext failed: contextArray must be an array", c)
    ELSE LET items == contextArray.items
             stops == {index \in 1..Len(items) :
                          \/ ~ValidContextEntry(items[index])
                          \/ items[index].timestamp # Null}
             first == CHOOSE index \in stops : \A other \in stops : index <= other
         IN IF stops # {} /\ ~ValidContextEntry(items[first])
                THEN Thrown("setContext failed: entry is invalid", c)
            ELSE IF stops # {}
                THEN Thrown("ReferenceError: timestamp is not defined", c)
            ELSE Returned([index \in 1..Len(items) |->
                              [content |-> Trim(items[index].content),
                               timestamp |-> OrElse(items[index].timestamp,
                                                    currentTime)]], Null)

\* clearContext()
clearContext(c) == Returned(<<>>, Null)

\* ------------------------------------------ the caller, on the two stores
\* The number of callbacks in a change registry, and of entries in the
\* context.
MaxSubscribers == 1

MaxContext == 2

\* onMessageHistoryChange(callback), for a function
onMessageHistoryChange(callback) ==
    /\ onMessageHistoryChangeCallbacks' =
           Append(onMessageHistoryChangeCallbacks, callback)
    /\ UNCHANGED <<agentVars, initPc, unsubscribers, calls, now, ticks, initLog,
                   initResponse, requests, context, useMessageHistory,
                   onContextChangeCallbacks, storageVars>>
    /\ Quiet

\* The closure onMessageHistoryChange(callback) returned, called while the
\* callback is in the registry.
onMessageHistoryChangeUnsubscribe(callback) ==
    /\ IndexOf(onMessageHistoryChangeCallbacks, callback) # 0
    /\ onMessageHistoryChangeCallbacks' =
           Splice1(onMessageHistoryChangeCallbacks,
                   IndexOf(onMessageHistoryChangeCallbacks, callback) - 1)
    /\ UNCHANGED <<agentVars, initPc, unsubscribers, calls, now, ticks, initLog,
                   initResponse, requests, context, useMessageHistory,
                   onContextChangeCallbacks, storageVars>>
    /\ Quiet

\* onContextChange(callback), for a function
onContextChange(callback) ==
    /\ onContextChangeCallbacks' = Append(onContextChangeCallbacks, callback)
    /\ UNCHANGED <<agentVars, initPc, unsubscribers, calls, now, ticks, initLog,
                   initResponse, requests, context, useMessageHistory,
                   onMessageHistoryChangeCallbacks, storageVars>>
    /\ Quiet

\* The closure onContextChange(callback) returned, called while the callback
\* is in the registry.
onContextChangeUnsubscribe(callback) ==
    /\ IndexOf(onContextChangeCallbacks, callback) # 0
    /\ onContextChangeCallbacks' =
           Splice1(onContextChangeCallbacks,
                   IndexOf(onContextChangeCallbacks, callback) - 1)
    /\ UNCHANGED <<agentVars, initPc, unsubscribers, calls, now, ticks, initLog,
                   initResponse, requests, context, useMessageHistory,
                   onMessageHistoryChangeCallbacks, storageVars>>
    /\ Quiet

\* The context store method with outcome r, called by the user.
ContextCall(r) ==
    /\ context' = r.history
    /\ changeLog' = IF r.ok THEN onContextChangeExecute(r.history) ELSE <<>>
    /\ onContextChangeCallbacks' =
           IF r.ok THEN Registered(onContextChangeCallbacks)
           ELSE onContextChangeCallbacks
    /\ environment' =
           IF r.ok /\ \E i \in 1..Len(onContextChangeExecute(r.history)) :
                         onContextChangeExecute(r.history)[i].callback = StorageCallback
           THEN setStorageItem(environment, "context", r.history)
           ELSE environment
    /\ UNCHANGED <<useStorage, agents>>
    /\ storeThrew' = r.error
    /\ UNCHANGED <<agentVars, initPc, unsubscribers, calls, now, ticks, initLog,
                   initResponse, requests, useMessageHistory,
                   onMessageHistoryChangeCallbacks>>

AddContextEntry(content, timestamp) ==
    /\ Len(context) < MaxContext
    /\ ContextCall(addContextEntry(context, content, timestamp, now))

RemoveContextEntry(index) == ContextCall(removeContextEntry(context, index))

ModifyContextEntry(index, content, timestamp) ==
    ContextCall(modifyContextEntry(context, index, content, timestamp))

SetContext(contextArray) == ContextCall(setContext(context, contextArray, now))

ClearContext == ContextCall(clearContext(context))

\* What the caller passes to the store methods: contents (a string to trim,
\* an empty one, one of spaces, one too long for a message, one too long for
\* a context entry, no string), roles, indexes (Null: no number),
\* timestamps (Null: left out) and arrays.
HistoryContents == {<<" ", "a">>, <<>>, <<"X", "a">>, NotAString}

ContextContents == {<<"a", " ">>, <<" ">>, <<"M", "a">>, NotAString}

StoreRoles == {"user", "assistant", "system"}

StoreIndexes == {Null, Num(-1), Num(0), Num(1), Num(2)}

Timestamps == {Null, Num(14000), Num(-1), NaN}

HistoryArrays ==
    {<<[content |-> <<"a", " ">>, role |-> "assistant"]>>,
     <<[content |-> <<"a">>, role |-> "user"],
       [content |-> <<"a">>, role |-> "system"]>>,
     <<[content |-> <<"X", "a">>, role |-> "user"]>>}

ContextArrays ==
    {NotAnArray,
     ArrayOf(<<[content |-> <<" ", "a">>, timestamp |-> Null]>>),
     ArrayOf(<<[content |-> <<"a">>, timestamp |-> Num(14000)]>>),
     ArrayOf(<<[content |-> <<"a">>, timestamp |-> Null],
               [content |-> <<" ">>, timestamp |-> Null]>>),
     ArrayOf(<<[content |-> <<"a">>, timestamp |-> Num(14000)],
               [content |-> <<"M", "a">>, timestamp |-> Null]>>),
     ArrayOf(<<[content |-> <<"a">>, timestamp |-> NaN]>>)}

\* The names of the callbacks.
Subscribers == {1}

\* The change registries and the two stores.
NextStore ==
    \/ \E callback \in Subscribers :
           /\ Len(onMessageHistoryChangeCallbacks) < MaxSubscribers
           /\ onMessageHistoryChange(callback)
    \/ \E callback \in Subscribers : onMessageHistoryChangeUnsubscribe(callback)
    \/ \E callback \in Subscribers :
           /\ Len(onContextChangeCallbacks) < MaxSubscribers
           /\ onContextChange(callback)
    \/ \E callback \in Subscribers : onContextChangeUnsubscribe(callback)
    \/ \E content \in HistoryContents, role \in StoreRoles : AddMessage(content, role)
    \/ \E index \in StoreIndexes : RemoveMessage(index)
    \/ \E index \in StoreIndexes, content \in HistoryContents,
          role \in StoreRoles \cup {NoRole} : ModifyMessage(index, content, role)
    \/ \E array \in HistoryArrays : SetMessageHistory(array)
    \/ ClearMessageHistory
    \/ \E content \in ContextContents, timestamp \in Timestamps :
           AddContextEntry(content, timestamp)
    \/ \E index \in StoreIndexes : RemoveContextEntry(index)
    \/ \E index \in StoreIndexes, content \in ContextContents,
          timestamp \in Timestamps : ModifyContextEntry(index, content, timestamp)
    \/ \E contextArray \in ContextArrays : SetContext(contextArray)
    \/ ClearContext

SpecStore == Init /\ [][NextStore]_vars

\* ----------------------------------------------------------- notifications
\* The callbacks a caller registers: one that returns, one that throws, one
\* that unsubscribes itself when it is called.
Callbacks == {1} \cup Throwing \cup OneShot

\* The number of callbacks in a change registry of SpecNotify.
MaxNotified == 2

\* Context store operations that succeed.
ContextStoreBriefly ==
    \/ AddContextEntry(<<"a", " ">>, Null)
    \/ context # <<>> /\ RemoveContextEntry(Num(0))
    \/ context # <<>> /\ ModifyContextEntry(Num(0), <<"a", "a">>, Num(14000))
    \/ SetContext(ArrayOf(<<[content |-> <<" ", "a">>, timestamp |-> Null]>>))
    \/ ClearContext

\* The caller of SpecNotify works on one store in a behaviour: on the history
\* while the context and its registry are empty, on the context while the
\* history and its registry are empty and no call was made.
OnHistory == context = <<>> /\ onContextChangeCallbacks = <<>>

OnContext ==
    /\ messageHistory = <<>>
    /\ onMessageHistoryChangeCallbacks = <<>>
    /\ calls = <<>>

\* The change registries with callbacks of every kind, the operations of
\* the two stores that succeed, and message, messageStream and greet saving
\* to the history.
NextNotify ==
    \/ \E callback \in Callbacks :
           /\ OnHistory /\ Len(onMessageHistoryChangeCallbacks) < MaxNotified
           /\ onMessageHistoryChange(callback)
    \/ \E callback \in Callbacks : onMessageHistoryChangeUnsubscribe(callback)
    \/ \E callback \in Callbacks :
           /\ OnContext /\ Len(onContextChangeCallbacks) < MaxNotified
           /\ onContextChange(callback)
    \/ \E callback \in Callbacks : onContextChangeUnsubscribe(callback)
    \/ OnHistory /\ HistoryStoreBriefly
    \/ OnContext /\ ContextStoreBriefly
    \/ InitializeAgentBriefly
    \/ OnHistory /\ Len(calls) < MaxRouteCalls /\ MessageCall(<<"a">>, TRUE, TRUE)
    \/ \E self \in 1..MaxCalls, status \in {200, 500} :
           MessageFetchSettles(self, TRUE, status, Null)
    \/ \E self \in 1..MaxCalls : MessageJsonSettles(self, <<"a">>)
    \/ OnHistory /\ Len(calls) < MaxRouteCalls /\ StreamCall(<<"a">>, TRUE, TRUE)
    \/ \E self \in 1..MaxCalls, status \in {200, 500} :
           StreamFetchSettles(self, TRUE, status, Null, RouteWire)
    \/ \E self \in 1..MaxCalls : StreamReadSettles(self, Len(RouteWire))
    \/ \E self \in 1..MaxCalls : StreamNext(self)
    \/ OnHistory /\ Len(calls) < MaxRouteCalls /\ GreetCall(Null, TRUE, TRUE)
    \/ \E self \in 1..MaxCalls, status \in {200, 500} :
           GreetFetchSettles(self, TRUE, status, Null)
    \/ \E self \in 1..MaxCalls : GreetJsonSettles(self, <<"a">>)

SpecNotify == Init /\ [][NextNotify]_vars

\* ------------------------------------------------- persisted context
\* The agents constructed in one host.
MaxAgents == 2

AgentIds == {"A2", "A3"}

\* What localStorage holds when the first agent is constructed: nothing, the
\* empty string, the context of two entries an agent saved, an entry without
\* timestamp and with spaces around its content, a text that is no JSON, an
\* array whose elements are invalid, an array with one valid and one invalid
\* entry, and an object.
StoredTexts ==
    {NoItem,
     <<>>,
     JSONstringify(<<[content |-> <<"a">>, timestamp |-> 1],
                     [content |-> <<"a", "a">>, timestamp |-> 2]>>),
     <<"[", "{", "content:", "\"", " ", "a", "\"", "}", "]">>,
     <<"n", "o", "t">>,
     <<"[", "{", "content:", "1", "2", "3", "}", ",", "\"", "a", "\"", "]">>,
     <<"[", "{", "content:", "\"", "a", "\"", ",", "timestamp:", "1", "}", ",",
       "{", "content:", "\"", " ", "\"", "}", "]">>,
     <<"{", "content:", "\"", "a", "\"", "}">>}

\* new Heylock(agentKey, {agentId: 'A2', suppressWarnings}) with useStorage
\* true: in a browser whose localStorage holds a text under 'context', or
\* the saved context under 'heylock:A2:context', or outside a browser.
InitStorage ==
    \/ \E suppressWarnings \in BOOLEAN, text \in StoredTexts :
           ConstructedIn(Options(TRUE, TRUE, suppressWarnings, "A2"),
                         Browser("context", text))
    \/ ConstructedIn(Options(TRUE, TRUE, FALSE, "A2"),
                     Browser("heylock:A2:context",
                             JSONstringify(<<[content |-> <<"a">>, timestamp |-> 1]>>)))
    \/ ConstructedIn(Options(TRUE, TRUE, FALSE, "A2"), Node)

\* new Heylock(agentKey, {agentId}) in the same host.
ConstructAnother(agentId) ==
    /\ Len(agents) < MaxAgents
    /\ agents' = Append(agents,
           Construction(Options(TRUE, TRUE, FALSE, agentId), environment, now))
    /\ UNCHANGED <<agentVars, initPc, unsubscribers, calls, now, ticks, initLog,
                   initResponse, requests, context, useMessageHistory,
                   onMessageHistoryChangeCallbacks, onContextChangeCallbacks,
                   useStorage, environment>>
    /\ Quiet

\* addContextEntry(content) on the agent constructed by ConstructAnother: its
\* context changes and its own callback saves it.
OtherAddContextEntry(content) ==
    /\ Len(agents) = MaxAgents
    /\ Len(agents[MaxAgents].context) < MaxContext
    /\ LET r == addContextEntry(agents[MaxAgents].context, content, Null, now)
       IN /\ agents' = [agents EXCEPT ![MaxAgents].context = r.history]
          /\ environment' = IF r.ok
                            THEN setStorageItem(environment, "context", r.history)
                            ELSE environment
    /\ UNCHANGED <<agentVars, initPc, unsubscribers, calls, now, ticks, initLog,
                   initResponse, requests, context, useMessageHistory,
                   onMessageHistoryChangeCallbacks, onContextChangeCallbacks,
                   useStorage>>
    /\ Quiet

\* The context store of an agent that persists its context, and a second
\* agent in the same host.
NextStorage ==
    \/ \E timestamp \in {Null, Num(14000)} : AddContextEntry(<<"a", " ">>, timestamp)
    \/ RemoveContextEntry(Num(0))
    \/ ModifyContextEntry(Num(0), <<"a", "a">>, Null)
    \/ \E contextArray \in
              {ArrayOf(<<[content |-> <<" ", "a">>, timestamp |-> Null]>>),
               ArrayOf(<<[content |-> <<"a">>, timestamp |-> Null],
                         [content |-> <<" ">>, timestamp |-> Null]>>)} :
           SetContext(contextArray)
    \/ ClearContext
    \/ \E agentId \in AgentIds : ConstructAnother(agentId)
    \/ OtherAddContextEntry(<<"a">>)

SpecStorage == InitStorage /\ [][NextStorage]_vars

\* ------------------------------------------------- calls in flight at once
\* What the n-th message call of SpecConcurrent sends, and what the service
\* answers it: the calls and the replies differ from each other.
ContentOf(n) == [i \in 1..n |-> "a"]

ReplyTo(n) == ContentOf(n) \o <<"!">>

\* Initialization and message calls that save to the history, started
\* while others are in flight and answered in any order.
NextConcurrent ==
    \/ InitializeAgentBriefly
    \/ MessageCall(ContentOf(Len(calls) + 1), TRUE, TRUE)
    \/ \E self \in 1..MaxCalls, transport \in BOOLEAN, status \in {200, 500},
          header \in {Null, Num(3)} :
           MessageFetchSettles(self, transport, status, header)
    \/ \E self \in 1..MaxCalls : MessageJsonSettles(self, ReplyTo(self))

SpecConcurrent == Init /\ [][NextConcurrent]_vars

\* ------------------------------------------------------- what is stored
\* new Heylock(agentKey, {useStorage: true}) in a browser whose localStorage
\* holds a text under 'context'.
\* The stored text of one entry without timestamp and with a space before
\* its content.
SpacedText == <<"[", "{", "content:", "\"", " ", "a", "\"", "}", "]">>

InitStored ==
    \E text \in StoredTexts :
        ConstructedIn(Options(TRUE, TRUE, FALSE, "default"), Browser("context", text))

\* The caller of SpecStored works on one store in a behaviour: on the context
\* while the history is empty and nothing else has happened, on the history
\* and the routes while localStorage holds what it held at construction,
\* nothing or the text of one entry.
OnContextOnly ==
    /\ messageHistory = <<>>
    /\ calls = <<>>
    /\ initPc = "verifyKey"

OnHistoryOnly ==
    environment.localStorage["context"] \in {NoItem, SpacedText}

\* No call of a route has been made.
BeforeCalls == OnHistoryOnly /\ calls = <<>>

\* An agent that restored its context, the operations of the two stores with
\* arguments that pass their checks and that do not, and one call of message,
\* messageStream or greet that saves to the history, with operations of the
\* history store in between.
NextStored ==
    \/ OnHistoryOnly /\ InitializeAgentBriefly
    \/ \E content \in ContextContents, timestamp \in Timestamps :
           OnContextOnly /\ AddContextEntry(content, timestamp)
    \/ \E index \in StoreIndexes : OnContextOnly /\ RemoveContextEntry(index)
    \/ \E index \in StoreIndexes, content \in ContextContents,
          timestamp \in Timestamps :
           OnContextOnly /\ ModifyContextEntry(index, content, timestamp)
    \/ \E contextArray \in ContextArrays : OnContextOnly /\ SetContext(contextArray)
    \/ OnContextOnly /\ ClearContext
    \/ \E content \in HistoryContents, role \in StoreRoles :
           BeforeCalls /\ AddMessage(content, role)
    \/ \E index \in StoreIndexes : BeforeCalls /\ RemoveMessage(index)
    \/ \E index \in StoreIndexes, content \in HistoryContents,
          role \in StoreRoles \cup {NoRole} :
           BeforeCalls /\ ModifyMessage(index, content, role)
    \/ \E array \in HistoryArrays : BeforeCalls /\ SetMessageHistory(array)
    \/ BeforeCalls /\ ClearMessageHistory
    \/ calls # <<>> /\ HistoryStoreBriefly
    \/ \E content \in CallContents :
           /\ OnHistoryOnly /\ Len(calls) < MaxRouteCalls
           /\ MessageCall(content, TRUE, TRUE)
    \/ \E self \in 1..MaxCalls, status \in {200, 500} :
           MessageFetchSettles(self, TRUE, status, Null)
    \/ \E self \in 1..MaxCalls, output \in Replies : MessageJsonSettles(self, output)
    \/ \E content \in CallContents :
           /\ OnHistoryOnly /\ Len(calls) < MaxRouteCalls
           /\ StreamCall(content, TRUE, TRUE)
    \/ \E self \in 1..MaxCalls, status \in {200, 500}, wire \in Wires :
           StreamFetchSettles(self, TRUE, status, Null, wire)
    \/ \E self \in 1..MaxCalls, size \in {-1, 0, 4, MaxWire} :
           StreamReadSettles(self, size)
    \/ \E self \in 1..MaxCalls : StreamNext(self)
    \/ OnHistoryOnly /\ Len(calls) < MaxRouteCalls /\ GreetCall(Null, TRUE, TRUE)
    \/ \E self \in 1..MaxCalls, status \in {200, 500} :
           GreetFetchSettles(self, TRUE, status, Null)
    \/ \E self \in 1..MaxCalls, output \in Replies : GreetJsonSettles(self, output)

SpecStored == InitStored /\ [][NextStored]_vars

\* -------------------------------------------------------- rejected calls
\* What the caller gives the routes as content and as instructions: a
\* string, a blank string, a string of the maximum length and a value that is
\* no string; Null is an argument left out.
RejectContents == {<<"a">>, <<" ">>, <<"X", "a">>, NotAString}

RejectInstructions == {Null, <<"a">>, <<" ">>, <<"X">>, NotAString}

\* Initialization, a history and a context that are not empty, one message
\* call that is answered, and calls of message, greet, rewrite, sort and
\* shouldEngage with arguments that pass their checks and that do not.
NextRejects ==
    \/ InitializeAgentBriefly
    \/ messageHistory = <<>> /\ AddMessage(<<"a">>, "user")
    \/ context = <<>> /\ AddContextEntry(<<"a">>, Null)
    \/ \E content \in RejectContents, save \in BOOLEAN :
           MessageCall(content, TRUE, save)
    \/ \E self \in 1..MaxCalls : MessageFetchSettles(self, TRUE, 200, Null)
    \/ \E self \in 1..MaxCalls : MessageJsonSettles(self, <<"a">>)
    \/ \E instructions \in RejectInstructions, save \in BOOLEAN :
           GreetCall(instructions, TRUE, save)
    \/ \E content \in RejectContents, instructions \in RejectInstructions :
           RewriteCall(content, instructions, TRUE)
    \/ \E array \in SortArrays, instructions \in RejectInstructions :
           SortCall(array, instructions, TRUE)
    \/ \E instructions \in RejectInstructions :
           Len(calls) < MaxCalls /\ ShouldEngageCall(instructions)

SpecRejects == Init /\ [][NextRejects]_vars

\* ------------------------------------------------- the reads of a stream
\* Bodies of a 200 streaming response that end with a newline, with a record
\* that has a message, and with a done record.
ReadWires ==
    {<<"{", "a", "}", NL, "{", "a", " ", "}", NL, "{", "D", "}", NL>>,
     <<"{", "a", "}", NL, "{", "G", "}">>,
     <<"{", "a", "}", NL, "{", "D", "}">>}

\* Initialization and one messageStream() call whose 200 response the
\* transport hands over in reads of any sizes.
NextReads ==
    \/ InitializeAgentBriefly
    \/ \E save \in BOOLEAN : Streams < MaxStreams /\ StreamCall(<<"a">>, TRUE, save)
    \/ \E self \in 1..MaxCalls, wire \in ReadWires :
           StreamFetchSettles(self, TRUE, 200, Null, wire)
    \/ \E self \in 1..MaxCalls, size \in 0..MaxWire : StreamReadSettles(self, size)
    \/ \E self \in 1..MaxCalls : StreamNext(self)

SpecReads == Init /\ [][NextReads]_vars

\* ------------------------------------------------ saving and not saving
\* Initialization and two messageStream() calls, one that saves to the
\* history and one that does not, each with a 200 response whose body comes
\* in reads of a few sizes.
NextSaving ==
    \/ InitializeAgentBriefly
    \/ \E save \in BOOLEAN :
           /\ \A i \in 1..Len(calls) : calls[i].save # save
           /\ StreamCall(<<"a">>, TRUE, save)
    \/ \E self \in 1..MaxCalls, wire \in Wires :
           StreamFetchSettles(self, TRUE, 200, Null, wire)
    \/ \E self \in 1..MaxCalls, size \in {0, 4, MaxWire} : StreamReadSettles(self, size)
    \/ \E self \in 1..MaxCalls : StreamNext(self)

SpecSaving == Init /\ [][NextSaving]_vars

\* ------------------------------------------------------------------ claims
\* The positions of `log` at which `callback` was invoked.
InvocationsOf(log, callback) == {i \in 1..Len(log) : log[i].callback = callback}

InitPending == initPc \in {"verifyKey", "fetchUsage"}

\* C1: when initialization fails at any step, every callback registered with
\* onInitialized before the failure is invoked exactly once, with false.
C1_FailureNotifiesFalse ==
    [][InitPending /\ initPc' = "failed" =>
          \A callback \in Range(onInitializedCallbacks) :
              /\ Cardinality(InvocationsOf(initLog', callback)) = 1
              /\ \A i \in InvocationsOf(initLog', callback) :
                     initLog'[i].success = FALSE]_vars

\* C2: when verification answers 200 with valid:true and the usage fetch
\* succeeds, isInitialized is true, the three counters are those of the
\* fetch-usage response, and every callback registered at that moment is
\* invoked exactly once with true, after both were set; no callback is ever
\* invoked twice.
C2_SuccessNotifiesTrue ==
    /\ [][initPc = "fetchUsage" /\ initPc' = "ready" =>
            /\ isInitialized'
            /\ initResponse' # Null
            /\ usageRemaining'.messages = initResponse'.messages
            /\ usageRemaining'.sorts = initResponse'.sorts
            /\ usageRemaining'.rewrites = initResponse'.rewrites
            /\ \A callback \in Range(onInitializedCallbacks) :
                   Cardinality(InvocationsOf(initLog', callback)) = 1]_vars
    /\ [](\A i \in 1..Len(initLog) :
            /\ initPc = "ready"
            /\ initLog[i].success = TRUE
            /\ initLog[i].isInitialized = TRUE
            /\ initLog[i].usageRemaining = initResponse
            /\ Cardinality(InvocationsOf(initLog, initLog[i].callback)) = 1)

C2_Witness ==
    /\ initPc = "ready"
    /\ Len(initLog) >= 2
    /\ usageRemaining.messages = Num(5)

\* C3: the values the messageHistory and usageRemaining accessors return are
\* immutable snapshots: an attempt to mutate a returned array or object
\* leaves what the accessors return as it was before the attempt.
C3_SnapshotsImmutable ==
    [][ExternalMutation =>
          /\ get_messageHistory.value' = get_messageHistory.value
          /\ get_usageRemaining.value' = get_usageRemaining.value]_vars

\* A history entry that no messageStream call pushed as its placeholder.
Entry(content, role) == [content |-> content, role |-> role, by |-> 0]

\* The step is one of call `self`: it starts it or moves it on.
StepOf(self) ==
    \/ self = Len(calls) + 1 /\ Len(calls') = self
    \/ self \in 1..Len(calls) /\ calls'[self].pc # calls[self].pc

\* The step ends call `self`, which returns.
Returns(self) ==
    /\ self \in 1..Len(calls)
    /\ calls[self].pc # "done"
    /\ calls'[self].pc = "done"
    /\ calls'[self].result.kind = "return"

\* C4 as stated: a message call that succeeds with saveToHistory true and no
\* other history operation in between appends exactly the user content as a
\* user entry and then the reply as an assistant entry and returns the reply;
\* with saveToHistory false it leaves the history unchanged.
C4_AppendsContentAndReply ==
    [][\A self \in 1..MaxCalls :
          /\ (Returns(self) /\ calls[self].op = "message" /\ calls[self].save
                /\ ~calls[self].interleaved) =>
                 /\ calls'[self].result.value = <<calls'[self].wire>>
                 /\ messageHistory' = calls[self].before \o
                        <<Entry(calls[self].content, "user"),
                          Entry(calls'[self].wire, "assistant")>>
          /\ (StepOf(self) /\ calls'[self].op = "message" /\ ~calls'[self].save) =>
                 messageHistory' = messageHistory]_vars

\* C4 amended: the two entries hold the whitespace-trimmed user content and
\* the whitespace-trimmed reply; the user entry is there from the moment the
\* request is sent; the reply is returned as received.
C4_AppendsTrimmedContentAndReply ==
    /\ [][\A self \in 1..MaxCalls :
            /\ (Returns(self) /\ calls[self].op = "message" /\ calls[self].save
                  /\ ~calls[self].interleaved) =>
                   /\ calls'[self].result.value = <<calls'[self].wire>>
                   /\ messageHistory' = calls[self].before \o
                          <<Entry(Trim(calls[self].content), "user"),
                            Entry(Trim(calls'[self].wire), "assistant")>>
            /\ (StepOf(self) /\ calls'[self].op = "message" /\ ~calls'[self].save) =>
                   messageHistory' = messageHistory]_vars
    /\ [](\A self \in 1..Len(calls) :
            (calls[self].op = "message" /\ calls[self].pc # "done"
               /\ calls[self].save /\ ~calls[self].interleaved) =>
                messageHistory = Append(calls[self].before,
                                        Entry(Trim(calls[self].content), "user")))

C4_Witness ==
    \E self \in 1..Len(calls) :
        /\ calls[self].op = "message"
        /\ calls[self].pc = "done"
        /\ calls[self].result = Return(<<(<<"a", " ">>)>>)
        /\ calls[self].save
        /\ ~calls[self].interleaved
        /\ Len(messageHistory) = 3
        /\ messageHistory[3] = Entry(<<"a">>, "assistant")

\* The newline-terminated records of a response body.
Records(wire) == SubSeq(Split(wire), 1, Len(Split(wire)) - 1)

\* The fragments of the well-formed records with a message that come before
\* the first done record.
RECURSIVE Fragments(_)
Fragments(records) ==
    IF records = <<>> THEN <<>>
    ELSE LET chunk == JSONparse(Trim(Head(records)))
         IN IF chunk.ok /\ chunk.done THEN <<>>
            ELSE IF chunk.ok /\ chunk.message # <<>>
            THEN <<chunk.message>> \o Fragments(Tail(records))
            ELSE Fragments(Tail(records))

HasDone(wire) ==
    \E i \in 1..Len(Records(wire)) :
        JSONparse(Trim(Records(wire)[i])).ok /\ JSONparse(Trim(Records(wire)[i])).done

RECURSIVE Concat(_)
Concat(strings) ==
    IF strings = <<>> THEN <<>> ELSE Head(strings) \o Concat(Tail(strings))

\* The stream call `self` is over and returned.
StreamReturned(self) ==
    /\ calls[self].op = "messageStream"
    /\ calls[self].pc = "done"
    /\ calls[self].result.kind = "return"

\* C5: of a 200 streaming response messageStream emits exactly the fragments
\* of the well-formed records before the first done record, in order (never
\* anything else on the way), and its final value is their concatenation.
C5_EmitsFragmentsInOrder ==
    \A self \in 1..Len(calls) :
        /\ calls[self].op = "messageStream" =>
               \E n \in 0..Len(Fragments(Records(calls[self].wire))) :
                   calls[self].emitted =
                       SubSeq(Fragments(Records(calls[self].wire)), 1, n)
        /\ (StreamReturned(self) /\ HasDone(calls[self].wire)) =>
               /\ calls[self].emitted = Fragments(Records(calls[self].wire))
               /\ calls[self].result.value =
                      <<Concat(Fragments(Records(calls[self].wire)))>>

\* The step lets the stream call `self` yield a fragment.
Yields(self) ==
    /\ self \in 1..Len(calls)
    /\ calls[self].op = "messageStream"
    /\ calls'[self].pc = "yield"
    /\ Len(calls'[self].emitted) = Len(calls[self].emitted) + 1

\* C6: when a messageStream call that saves to the history, with no other
\* history operation in between, returns on a done record, the last entry is
\* an assistant entry whose content is the text of all the fragments it
\* received; after each fragment it emits, its placeholder holds the text so
\* far.  The texts are compared up to surrounding whitespace, which the store
\* trims on every write.
C6_PlaceholderHoldsCumulativeText ==
    [][\A self \in 1..MaxCalls :
          /\ (Returns(self) /\ calls[self].op = "messageStream"
                /\ calls[self].save /\ ~calls[self].interleaved
                /\ HasDone(calls[self].wire)) =>
                 /\ messageHistory' # <<>>
                 /\ messageHistory'[Len(messageHistory')].role = "assistant"
                 /\ messageHistory'[Len(messageHistory')].content =
                        Trim(Concat(Fragments(Records(calls[self].wire))))
          /\ (Yields(self) /\ calls[self].save /\ ~calls[self].interleaved) =>
                 messageHistory'[calls[self].index[1] + 1].content =
                     Trim(Concat(calls'[self].emitted))]_vars

\* The step ends call `self`, which throws.
Throws(self) ==
    /\ self \in 1..Len(calls)
    /\ calls[self].pc # "done"
    /\ calls'[self].pc = "done"
    /\ calls'[self].result.kind = "throw"

\* The positions of the history at which the placeholder of the stream call
\* `self` is.
PlaceholderOf(h, self) == {i \in 1..Len(h) : h[i].by = self}

\* C7: when a messageStream call that saves to the history fails after its
\* placeholder was created, the placeholder's content is the failure notice
\* by the time the error reaches the consumer, and it is the stream's error
\* that reaches them.
C7_FailureLeavesNotice ==
    [][\A self \in 1..MaxCalls :
          (Throws(self) /\ calls[self].op = "messageStream" /\ calls[self].save
             /\ calls[self].index # Null) =>
              /\ \A i \in PlaceholderOf(messageHistory', self) :
                     messageHistory'[i].content = FailureNotice
              /\ calls'[self].result.error = "messageStream failed"]_vars

\* C8: once a messageStream call that saves to the history is over, however
\* it ended, the placeholder it inserted does not have empty content; stated
\* for the calls during which no other history operation ran.
C8_NoEmptyPlaceholderLeft ==
    \A self \in 1..Len(calls) :
        (calls[self].op = "messageStream" /\ calls[self].pc = "done"
           /\ calls[self].save /\ ~calls[self].interleaved) =>
            \A i \in PlaceholderOf(messageHistory, self) :
                messageHistory[i].content # <<>>

\* C9: a messageStream call that does not save to the history never changes
\* the history, and when it fails its error is one of messageStream.
C9_UnsavedStreamLeavesHistory ==
    [][\A self \in 1..MaxCalls :
          (StepOf(self) /\ calls'[self].op = "messageStream"
             /\ ~calls'[self].save) =>
              /\ messageHistory' = messageHistory
              /\ calls'[self].result.kind = "throw" =>
                     calls'[self].result.error = "messageStream failed"]_vars

\* The step starts call `self`.
Starts(self) == self = Len(calls) + 1 /\ Len(calls') = self

\* A shouldEngage call that was not answered by the throttle.
LetThrough(call) ==
    call.op = "shouldEngage" /\ call.result # Return(<<ThrottledResult>>)

\* A shouldEngage call was let through less than the window before now.
InCooldown ==
    \E i \in 1..Len(calls) :
        LetThrough(calls[i]) /\ now - calls[i].at < SHOULD_ENGAGE_THROTTLING_MS

Metered == {"message", "messageStream", "rewrite", "sort"}

CounterOf(op) ==
    CASE op \in {"message", "messageStream"} -> "messages"
      [] op = "rewrite" -> "rewrites"
      [] op = "sort" -> "sorts"

\* This step gives the call `self` the response to its request.
Receives(self) ==
    /\ calls[self].response.status = 0
    /\ calls'[self].response.status # 0

\* The header carries a number.
Numeric(header) == header # Null /\ header # NaN

\* C11: when a call of message, messageStream, rewrite or sort receives a
\* response, the usage counter of its operation becomes the number in the
\* response's x-ratelimit-remaining header when there is one, and otherwise
\* its previous value minus 1 (where it had a value); the two other counters
\* keep their values.
C11_UsageCounterAfterResponse ==
    [][\A self \in 1..Len(calls) :
          (calls[self].op \in Metered /\ Receives(self)) =>
              LET counter == CounterOf(calls[self].op)
                  header == calls'[self].response.header
              IN /\ Numeric(header) => usageRemaining'[counter] = header
                 /\ (~Numeric(header) /\ usageRemaining[counter] # Null) =>
                        usageRemaining'[counter]
                            = Num(usageRemaining[counter][1] - 1)
                 /\ \A other \in {"messages", "rewrites", "sorts"} \ {counter} :
                        usageRemaining'[other] = usageRemaining[other]]_vars

\* The value of a counter is a number above zero.
Positive(counter) == counter # Null /\ counter # NaN /\ counter[1] > 0

\* C12: a call of message, messageStream, rewrite or sort answered 429
\* reports "too many requests" when the usage counter of its operation is
\* above zero (before and after the response is counted), and the plan limit
\* when it is zero or less; so it does when the 429 has no
\* x-ratelimit-remaining header and the counter is still above zero.
C12_RateLimitByTrackedCounter ==
    [][\A self \in 1..Len(calls) :
          (/\ calls[self].op \in Metered
           /\ Receives(self)
           /\ calls'[self].response.status = 429) =>
              LET counter == CounterOf(calls[self].op)
                  before == usageRemaining[counter]
                  after == usageRemaining'[counter]
                  result == calls'[self].result
              IN /\ result.kind = "throw"
                 /\ (Positive(before) /\ Positive(after)) =>
                        result.detail = "too many requests"
                 /\ (before # Null /\ ~Positive(before) /\ ~Positive(after)) =>
                        result.detail = "plan limit"]_vars

\* The routes whose responses are classified by status.
Classified == Metered \cup {"shouldEngage"}

\* What the shared policy lets the error of a response with this status say,
\* in the wording of any route.
PolicyDetails(status) ==
    CASE status = 400 -> {"check arguments", "invalid arguments"}
      [] status = 401 -> {"authorization failed"}
      [] status = 429 -> {"plan limit", "too many requests"}
      [] status = 500 -> {"server issues"}
      [] status = 502 -> {"external service errors", "external service error"}
      [] OTHER -> {"unexpected error (HTTP " \o ToString(status) \o ")"}

\* C13: a call of message, messageStream, rewrite, sort or shouldEngage that
\* receives a response with a status other than 200 throws, and its error is
\* the one the shared policy gives that status: invalid arguments for 400,
\* authorization for 401, plan limit or too many requests for 429, server
\* issues for 500, external service for 502, and for any other status an
\* error that carries the number; a 200 response is not rejected for its
\* status.
C13_SharedStatusPolicy ==
    [][\A self \in 1..Len(calls) :
          (calls[self].op \in Classified /\ Receives(self)) =>
              LET status == calls'[self].response.status
                  result == calls'[self].result
              IN IF status = 200 THEN result.kind # "throw"
                 ELSE /\ result.kind = "throw"
                      /\ result.error = calls[self].op \o " failed"
                      /\ result.detail \in PolicyDetails(status)]_vars

\* C14: the body of a request of message or messageStream has the member
\* `history` when useMessageHistory is true and the member `context` when
\* useContext is true, and otherwise has no such member at all: it is not
\* there with the value false.
C14_PayloadOmitsDisabledFields ==
    \A self \in 1..Len(calls) :
        (/\ calls[self].op \in {"message", "messageStream"}
         /\ calls[self].payload # NoPayload) =>
            /\ calls[self].payload.history.member
                   = IF useMessageHistory THEN "value" ELSE "absent"
            /\ calls[self].payload.context.member
                   = IF calls[self].useContext THEN "value" ELSE "absent"

\* The entries of the history `h` with the role user.
UserEntries(h) == {i \in 1..Len(h) : h[i].role = "user"}

\* C15: a greet call that returns its reply has appended it to the history
\* as one assistant entry when saveToMessageHistory is true and has left the
\* history as it was when it is false; no step of a greet call adds a user
\* entry.
C15_GreetSavesOnlyWhenAsked ==
    [][\A self \in 1..MaxCalls :
          /\ (Returns(self) /\ calls[self].op = "greet") =>
                 messageHistory' =
                     IF calls[self].save
                     THEN Append(messageHistory,
                                 Entry(Trim(calls'[self].wire), "assistant"))
                     ELSE messageHistory
          /\ (StepOf(self) /\ calls'[self].op = "greet") =>
                 UserEntries(messageHistory') = UserEntries(messageHistory)]_vars

\* The step starts a call of sort with an input that is no array or has
\* fewer than two elements; the call is the last of calls'.
StartsShortSort ==
    /\ Len(calls') = Len(calls) + 1
    /\ calls'[Len(calls')].op = "sort"
    /\ (~calls'[Len(calls')].wire.isArray
            \/ Len(calls'[Len(calls')].wire.items) < 2)

\* C16: sort given a value that is no array, or an array of fewer than two
\* elements, returns at once, sends no request and changes no usage counter;
\* its result has fallback true and as indexes 0, 1, ... for the positions
\* of the array (none for a value that is no array), and for an array it
\* has the array given as `array`.
C16_SortFallback ==
    [][StartsShortSort =>
          LET call == calls'[Len(calls')]
              array == call.wire
          IN /\ call.pc = "done"
             /\ call.result.kind = "return"
             /\ requests' = requests
             /\ usageRemaining' = usageRemaining
             /\ call.result.value[1].fallback = "true"
             /\ call.result.value[1].indexes
                    = [i \in 1..Len(array.items) |-> Num(i - 1)]
             /\ array.isArray =>
                    call.result.value[1].array = JSONvalue(array.items)]_vars

\* The step ends the await of json() of the sort call `self`.
SortAnswered(self) ==
    /\ self \in 1..Len(calls)
    /\ calls[self].op = "sort"
    /\ calls[self].pc = "json"
    /\ calls'[self].pc = "done"

\* The data are an object with an array of integers as indexes and a string
\* as reasoning.
WellFormed(data) ==
    /\ data.indexes.isArray
    /\ \A i \in 1..Len(data.indexes.items) : data.indexes.items[i] # NaN
    /\ data.reasoning # NotAString

\* C17: when the 200 response to sort has as many indexes as the array has
\* elements, the call returns the indexes as received and an array that holds
\* at each position i the element of the input at position indexes[i]; when
\* the number of indexes differs, the call throws and returns nothing.
C17_SortGathersByIndexes ==
    [][\A self \in 1..MaxCalls :
          (SortAnswered(self) /\ WellFormed(calls'[self].received)) =>
              LET input == calls[self].wire.items
                  indexes == calls'[self].received.indexes.items
                  result == calls'[self].result
              IN IF Len(indexes) = Len(input)
                 THEN /\ result.kind = "return"
                      /\ result.value[1].indexes = indexes
                      /\ result.value[1].array.member = "value"
                      /\ Len(result.value[1].array.value) = Len(input)
                      /\ \A i \in 1..Len(indexes) :
                             indexes[i][1] \in 0..(Len(input) - 1) =>
                                 result.value[1].array.value[i]
                                     = input[indexes[i][1] + 1]
                 ELSE /\ result.kind = "throw"
                      /\ result.error = "sort failed"]_vars

\* A sort call has returned the two elements of its input in the other order.
C17_Witness ==
    \E self \in 1..Len(calls) :
        /\ calls[self].op = "sort"
        /\ calls[self].result.kind = "return"
        /\ calls[self].response.status = 200
        /\ calls[self].wire.items = <<"a", "b">>
        /\ calls[self].result.value[1].array = JSONvalue(<<"b", "a">>)
        /\ calls[self].result.value[1].indexes = <<Num(1), Num(0)>>

\* A message as the history takes it: a string of at most
\* MAX_MESSAGE_LENGTH characters with the role user or assistant.
AcceptableMessage(message) ==
    /\ message.content # NotAString
    /\ Length(message.content) <= MAX_MESSAGE_LENGTH
    /\ message.role \in {"user", "assistant"}

\* A context entry as the context takes it: a string that is not empty once
\* trimmed, of at most MAX_CONTEXT_ENTRY_LENGTH characters, with no timestamp
\* or a finite one that is not negative.
AcceptableEntry(entry) ==
    /\ entry.content # NotAString
    /\ Trim(entry.content) # <<>>
    /\ Length(entry.content) <= MAX_CONTEXT_ENTRY_LENGTH
    /\ \/ entry.timestamp = Null
       \/ entry.timestamp # NaN /\ entry.timestamp[1] >= 0

\* The latest step changed neither collection and invoked no change callback.
NothingChanged ==
    /\ messageHistory' = messageHistory
    /\ context' = context
    /\ changeLog' = <<>>

\* C18: setMessageHistory and setContext given an array with an element that
\* is not acceptable throw their validation error, leave the collection as
\* it was and invoke no change callback.
C18_ReplaceAllOrNothing ==
    [][/\ \A array \in HistoryArrays :
              (/\ SetMessageHistory(array)
               /\ \E i \in 1..Len(array) : ~AcceptableMessage(array[i])) =>
                  /\ storeThrew' = "setMessageHistory failed: message is invalid"
                  /\ NothingChanged
       /\ \A contextArray \in ContextArrays :
              (/\ SetContext(contextArray)
               /\ \E i \in 1..Len(contextArray.items) :
                      ~AcceptableEntry(contextArray.items[i])) =>
                  /\ storeThrew' = "setContext failed: entry is invalid"
                  /\ NothingChanged]_vars

\* What the context holds after setContext(items) at the time currentTime,
\* by C19: the entries in their order, the content trimmed, the timestamp
\* given or else the current time.
Replaced(items, currentTime) ==
    [i \in 1..Len(items) |->
        [content |-> Trim(items[i].content),
         timestamp |-> IF items[i].timestamp = Null THEN currentTime
                       ELSE items[i].timestamp[1]]]

\* C19: setContext given an array whose entries are all acceptable does not
\* throw, and the context then holds those entries in the same order, with
\* the content trimmed, the timestamp that was given kept and the current
\* time where none was given.
C19_SetContextKeepsValidEntries ==
    [][\A contextArray \in ContextArrays :
          (/\ contextArray.isArray
           /\ \A i \in 1..Len(contextArray.items) :
                  AcceptableEntry(contextArray.items[i])
           /\ SetContext(contextArray)) =>
              /\ storeThrew' = ""
              /\ context' = Replaced(contextArray.items, now)]_vars

\* The index is no number, is negative, or is not below the length.
BadIndex(index, length) == index = Null \/ index[1] < 0 \/ index[1] >= length

\* The content is no string or has more than `max` characters.
BadContent(content, max) == content = NotAString \/ Length(content) > max

\* The content is empty once trimmed.
EmptyContent(content) == content # NotAString /\ Trim(content) = <<>>

\* The timestamp is given and is not finite or is negative.
BadTimestamp(timestamp) ==
    timestamp # Null /\ (timestamp = NaN \/ timestamp[1] < 0)

\* The store method with outcome r throws and leaves the collection.
Rejects(r, collection) == ~r.ok /\ r.error # "" /\ r.history = collection

\* Each method of the history store rejects what does not pass its checks.
HistoryStoreRejects ==
    /\ \A content \in HistoryContents, role \in StoreRoles :
           (BadContent(content, MAX_MESSAGE_LENGTH) \/ role = "system") =>
               Rejects(addMessage(messageHistory, content, role), messageHistory)
    /\ \A index \in StoreIndexes :
           BadIndex(index, Len(messageHistory)) =>
               Rejects(removeMessage(messageHistory, index), messageHistory)
    /\ \A index \in StoreIndexes, content \in HistoryContents,
          role \in StoreRoles \cup {NoRole} :
           (\/ BadIndex(index, Len(messageHistory))
            \/ BadContent(content, MAX_MESSAGE_LENGTH)
            \/ EmptyContent(content)
            \/ role = "system") =>
               Rejects(modifyMessage(messageHistory, index, content, role),
                       messageHistory)

\* Each method of the context store rejects what does not pass its checks.
ContextStoreRejects ==
    /\ \A content \in ContextContents, timestamp \in Timestamps :
           (\/ BadContent(content, MAX_CONTEXT_ENTRY_LENGTH)
            \/ EmptyContent(content)
            \/ BadTimestamp(timestamp)) =>
               Rejects(addContextEntry(context, content, timestamp, now), context)
    /\ \A index \in StoreIndexes :
           BadIndex(index, Len(context)) =>
               Rejects(removeContextEntry(context, index), context)
    /\ \A index \in StoreIndexes, content \in ContextContents,
          timestamp \in Timestamps :
           (\/ BadIndex(index, Len(context))
            \/ BadContent(content, MAX_CONTEXT_ENTRY_LENGTH)
            \/ EmptyContent(content)
            \/ BadTimestamp(timestamp)) =>
               Rejects(modifyContextEntry(context, index, content, timestamp),
                       context)

\* C20: a method of the history store or of the context store given content
\* that is no string or is too long, content that is empty where it must not
\* be, a role that is neither user nor assistant, a timestamp that is not
\* finite or is negative, or an index that is negative or not below the
\* length, throws; and a store call that throws leaves both collections, and
\* so their lengths, as they were and invokes no change callback.
C20_FailedStoreCallChangesNothing ==
    /\ [](HistoryStoreRejects /\ ContextStoreRejects)
    /\ [][storeThrew' # "" => NothingChanged]_vars

\* A removeContextEntry beyond the end of a context that has an entry has
\* thrown, with a callback registered for changes of the context.
C20_Witness ==
    /\ storeThrew = "removeContextEntry failed: index out of bounds"
    /\ context # <<>>
    /\ onContextChangeCallbacks # <<>>


\* The callbacks invoked by the step, in the order of their invocation.
Invoked == [i \in 1..Len(changeLog') |-> changeLog'[i].callback]

\* The step notified the subscribers in `registry` of the store, in whole
\* rounds: each of them once a round, in the order of registration, the last
\* round with `collection`.
NotifiedInRounds(store, registry, collection) ==
    LET n == Len(registry)
        m == Len(changeLog')
    IN /\ m >= n
       /\ n > 0 => m % n = 0
       /\ \A i \in 1..m :
              /\ changeLog'[i].store = store
              /\ changeLog'[i].callback = registry[((i - 1) % n) + 1]
              /\ i > m - n => changeLog'[i].value = collection

\* C21: every operation that changes the message history (the store methods
\* and the appends and overwrites of message, messageStream and greet) or
\* the context invokes, before it returns, each subscriber registered for
\* that store once, in the order of registration, with the collection as
\* the operation left it.
C21_ChangeNotifiesEverySubscriber ==
    [][/\ messageHistory' # messageHistory =>
              NotifiedInRounds("messageHistory", onMessageHistoryChangeCallbacks,
                               messageHistory')
       /\ context' # context =>
              NotifiedInRounds("context", onContextChangeCallbacks, context')]_vars

\* The registry with every callback that throws replaced by one that returns.
Calm(registry) ==
    [i \in 1..Len(registry) |-> IF registry[i] \in Throwing THEN 1 ELSE registry[i]]

\* The collections the notifications of the step were made with, in order.
RECURSIVE Collections(_)
Collections(log) ==
    IF log = <<>> THEN <<>>
    ELSE IF Len(log) > 1 /\ log[1].value = log[2].value THEN Collections(Tail(log))
    ELSE <<log[1].value>> \o Collections(Tail(log))

\* The step invoked a callback of the store that throws.
ThrewIn(store) ==
    \E i \in 1..Len(changeLog') :
        changeLog'[i].store = store /\ changeLog'[i].callback \in Throwing

\* The step invoked whom it would have invoked had every callback of
\* `registry` returned, and the operation neither threw nor undid its change:
\* the last callback was given `collection`, the store as the step leaves it.
ThrowIsContained(store, registry, collection) ==
    /\ Calm(Invoked) =
           [i \in 1..Len(changeLog') |->
               DeliverAll(store, Calm(registry), Collections(changeLog'))[i].callback]
    /\ storeThrew' = ""
    /\ changeLog'[Len(changeLog')].value = collection

\* C22: a change subscriber that throws neither keeps the subscribers after
\* it from being invoked in the same notification nor makes the operation
\* that caused the notification fail or lose its change.
C22_ThrowingSubscriberIsContained ==
    [][/\ ThrewIn("messageHistory") =>
              ThrowIsContained("messageHistory", onMessageHistoryChangeCallbacks,
                               messageHistory')
       /\ ThrewIn("context") =>
              ThrowIsContained("context", onContextChangeCallbacks, context')]_vars

\* A notification in which the callback that throws was followed by another
\* callback, given the collection as the operation left it.
C22_Witness ==
    \E i \in 1..(Len(changeLog) - 1) :
        /\ changeLog[i].callback \in Throwing
        /\ changeLog[i + 1].callback \notin Throwing
        /\ changeLog[i + 1].store = "context"
        /\ changeLog[i + 1].value = context
        /\ context # <<>>
        /\ storeThrew = ""

\* The registry without the callback that the n-th onInitialized call
\* registered.
Without(callbacks, n) == SelectSeq(callbacks, LAMBDA callback : callback # n)

\* C23: the function returned by a subscription removes the callback that
\* this very subscription registered, if it is still registered, and no
\* other callback, whatever subscriptions and removals came before and
\* however often it is called (checked on the onInitialized registry).
C23_UnsubscribeRemovesOwnCallback ==
    [][\A n \in 1..MaxCallbacks :
           onInitializedUnsubscribe(n) =>
               onInitializedCallbacks' = Without(onInitializedCallbacks, n)]_vars

\* The key the specification gives the context of the agent `agentId`.
NamespacedKey(agentId) == "heylock:" \o agentId \o ":context"

\* The step is a context operation of the first agent that succeeded, in a
\* browser, with persistence enabled.
ContextSaved ==
    /\ useStorage /\ environment.isBrowser
    /\ \E i \in 1..Len(changeLog') : changeLog'[i].store = "context"

\* The step changes in localStorage at most the item under `key`, which
\* becomes the text of `value`.
SavesUnder(key, value) ==
    /\ environment'.localStorage[key] = JSONstringify(value)
    /\ \A other \in StorageKeys \ {key} :
           environment'.localStorage[other] = environment.localStorage[other]

\* C24: an agent that persists its context keeps it under the key
\* heylock:<agentId>:context: it saves its context there and nowhere else,
\* and an agent constructed in the same host reads the item under the key of
\* its own agentId, so that agents with different agentId neither restore
\* nor overwrite each other's context.
C24_ContextKeyIsNamespaced ==
    [][/\ ContextSaved => SavesUnder(NamespacedKey(agents[1].agentId), context')
       /\ Len(agents') > Len(agents) =>
              agents'[Len(agents')].stored =
                  environment.localStorage[NamespacedKey(agents'[Len(agents')].agentId)]
       /\ (Len(agents) = MaxAgents
              /\ agents'[MaxAgents].context # agents[MaxAgents].context) =>
              SavesUnder(NamespacedKey(agents[MaxAgents].agentId),
                         agents'[MaxAgents].context)]_vars

\* The agent that new Heylock(agentKey, {agentId}) would give in the host as
\* the step leaves it, for the agentId of the first agent.
ConstructedAfterwards ==
    Construction(Options(TRUE, TRUE, FALSE, agents[1].agentId), environment', now')

InvalidStored(text) ==
    \/ ~JSONparseStored(text).ok
    \/ ~JSONparseStored(text).value.isArray
    \/ \E i \in 1..Len(JSONparseStored(text).value.items) :
           ~ValidStoredEntry(JSONparseStored(text).value.items[i])

\* The constructor warned that the stored context was not restored.
WarnedNotRestored(agent) ==
    \E i \in 1..Len(agent.warnings) :
        agent.warnings[i] \in
            {"Failed to parse stored context. Context will not be restored.",
             "Stored context is invalid. Context will not be restored."}

InitMoves ==
    {<<"verifyKey", "fetchUsage">>, <<"verifyKey", "failed">>,
     <<"fetchUsage", "ready">>, <<"fetchUsage", "failed">>}

\* C27: initialization only moves from verifying to ready or to failed and
\* then stays there; isInitialized goes from false to true at most once, on
\* the valid answer to the verification, and never back to false; and no
\* operation on an agent whose initialization failed verifies again or
\* changes isInitialized.
C27_InitializationMovesOnce ==
    /\ [](initPc = "verifyKey" => ~isInitialized)
    /\ [](initPc = "ready" => isInitialized)
    /\ [][/\ initPc' # initPc => <<initPc, initPc'>> \in InitMoves
          /\ isInitialized => isInitialized'
          /\ isInitialized' # isInitialized => initPc = "verifyKey"
          /\ initPc \in {"failed", "ready"} =>
                 initPc' = initPc /\ isInitialized' = isInitialized]_vars

\* An agent whose verification failed, on which a route was called and has
\* ended: it is still failed and not initialized.
C27_Witness ==
    /\ initPc = "failed"
    /\ ~isInitialized
    /\ \E self \in 1..Len(calls) : calls[self].pc = "done"

\* The step ends call `self` with the failure of its request: fetch rejected,
\* or the service answered 429, 500 or 502.
FailsTransiently(self) ==
    /\ Throws(self)
    /\ calls[self].pc = "fetch"
    /\ calls'[self].response.status \in {0, 429, 500, 502}

\* C28: a message, rewrite or sort call that fails with a network error or a
\* transient service error leaves the message history as it was before the
\* call, so that the call can be made again.
C28_FailedCallLeavesHistory ==
    [][\A self \in 1..MaxCalls :
           (FailsTransiently(self) /\ calls[self].op \in {"message", "rewrite", "sort"})
               => messageHistory' = calls[self].before]_vars

\* The positions of the history that hold `content` with `role`.
PositionsOf(content, role) ==
    {i \in 1..Len(messageHistory) :
        messageHistory[i].content = content /\ messageHistory[i].role = role}

\* Every message call of the behaviour was made and has returned.
AllReturned ==
    /\ Len(calls) = MaxCalls
    /\ \A self \in 1..MaxCalls :
           calls[self].pc = "done" /\ calls[self].result.kind = "return"

\* C29: when several message calls that save to the history are in flight at
\* once and all succeed, the history holds the user message and the reply of
\* every call exactly once, the reply after the user message of its call,
\* and nothing else.
C29_ConcurrentCallsKeepEveryEntry ==
    AllReturned =>
        /\ Len(messageHistory) = 2 * MaxCalls
        /\ \A self \in 1..MaxCalls :
               /\ Cardinality(PositionsOf(ContentOf(self), "user")) = 1
               /\ Cardinality(PositionsOf(ReplyTo(self), "assistant")) = 1
               /\ \A i \in PositionsOf(ContentOf(self), "user"),
                     j \in PositionsOf(ReplyTo(self), "assistant") : i < j

\* Two calls were in flight at once and the second was answered first: the
\* history holds the two user messages, then the second reply, then the
\* first.
C29_Witness ==
    /\ AllReturned
    /\ PositionsOf(ReplyTo(MaxCalls), "assistant") # {}
    /\ \A j \in PositionsOf(ReplyTo(MaxCalls), "assistant"),
          i \in PositionsOf(ReplyTo(1), "assistant") : j < i
    /\ \A i \in PositionsOf(ContentOf(MaxCalls), "user"),
          j \in PositionsOf(ReplyTo(1), "assistant") : i < j

\* A shouldEngage call that was let through and failed without a 200
\* response: its arguments were rejected or the transport failed (no
\* response), or the status was not 200.
FailedEngage(call) ==
    /\ call.op = "shouldEngage"
    /\ call.result.kind = "throw"
    /\ call.response.status # 200

\* C30: a shouldEngage call made 15 seconds or more after the recorded call
\* time records its own call time before anything else: it is not throttled,
\* it sends its request when its arguments pass and fails with their error
\* when they do not, and in both cases the recorded time is its call time.
\* A call made less than 15 seconds after a call that was let through and
\* failed is throttled and sends no request.
C30_AttemptTimeIsRecorded ==
    [][\A self \in 1..MaxEngages :
          (Starts(self) /\ calls'[self].op = "shouldEngage") =>
              /\ now - shouldEngageTimeCalled >= SHOULD_ENGAGE_THROTTLING_MS =>
                     /\ shouldEngageTimeCalled' = now
                     /\ LetThrough(calls'[self])
                     /\ \/ /\ calls'[self].pc = "fetch"
                           /\ requests' = Append(requests,
                                  [op |-> "shouldEngage", at |-> now])
                        \/ /\ calls'[self].result.kind = "throw"
                           /\ calls'[self].result.detail \in
                                  {"instructions must be a non-empty string if provided",
                                   "instructions exceeds maximum allowed length"}
                           /\ requests' = requests
              /\ (\E i \in 1..Len(calls) :
                      /\ FailedEngage(calls[i])
                      /\ now - calls[i].at < SHOULD_ENGAGE_THROTTLING_MS) =>
                     /\ calls'[self].result = Return(<<ThrottledResult>>)
                     /\ requests' = requests
                     /\ shouldEngageTimeCalled' = shouldEngageTimeCalled]_vars

\* A call whose arguments were rejected, a second call one millisecond short
\* of the window that was throttled, and a third at the window's end that
\* sent the only request.
C30_Witness ==
    /\ Len(calls) = MaxEngages
    /\ FailedEngage(calls[1])
    /\ calls[1].result.detail = "instructions must be a non-empty string if provided"
    /\ calls[2].result = Return(<<ThrottledResult>>)
    /\ calls[2].at = calls[1].at + SHOULD_ENGAGE_THROTTLING_MS - 1
    /\ calls[MaxEngages].at = calls[1].at + SHOULD_ENGAGE_THROTTLING_MS
    /\ Len(requests) = 1
    /\ requests[1].at = calls[MaxEngages].at

\* The step starts the messageStream call `self`, which saves to the
\* history and gets as far as its request.
StartsSavingStream(self) ==
    /\ Starts(self)
    /\ calls'[self].op = "messageStream"
    /\ calls'[self].save
    /\ calls'[self].pc = "fetch"

\* C31: a messageStream call that saves to the history appends the user
\* message and then an empty assistant placeholder before it issues its
\* request, and the history that request carries (the agent sends one:
\* useMessageHistory) is the history with the user message and without the
\* placeholder.
C31_PlaceholderIsNotSent ==
    [][\A self \in 1..MaxCalls :
          StartsSavingStream(self) =>
              /\ messageHistory' = messageHistory \o
                     <<Entry(Trim(calls'[self].content), "user"),
                       [content |-> <<>>, role |-> "assistant", by |-> self]>>
              /\ Len(requests') = Len(requests) + 1
              /\ requests'[Len(requests')].op = "messageStream"
              /\ useMessageHistory =>
                     calls'[self].payload.history =
                         JSONvalue(messageHistory \o
                             <<Entry(Trim(calls'[self].content), "user")>>)]_vars

\* A stream call at its request, started on a history that was not empty:
\* the history ends with its placeholder, the request carries the entries
\* before it.
C31_Witness ==
    \E self \in 1..Len(calls) :
        /\ calls[self].op = "messageStream"
        /\ calls[self].pc = "fetch"
        /\ calls[self].save
        /\ Len(messageHistory) >= 3
        /\ PlaceholderOf(messageHistory, self) = {Len(messageHistory)}
        /\ calls[self].payload.history =
               JSONvalue(SubSeq(messageHistory, 1, Len(messageHistory) - 1))

\* The stream call `self` is over: its generator returned.
StreamOver(self) ==
    /\ self \in 1..Len(calls)
    /\ StreamReturned(self)

\* The fragments a stream call emitted are those of the newline-terminated
\* records of its body, whatever the reads were.
ReadsDoNotMatter ==
    \A self \in 1..MaxCalls :
        StreamOver(self) =>
            calls[self].emitted = Fragments(Records(calls[self].wire))

\* C32: the fragments messageStream emits depend on the body only, not on
\* the reads it came in, and every complete record of the body is
\* processed: once the call is over it has emitted the fragments of all the
\* records of the body that come before a done record, those the body's end
\* delimits as well as those a newline does.
C32_EveryRecordIsProcessed ==
    \A self \in 1..MaxCalls :
        StreamOver(self) =>
            calls[self].emitted = Fragments(Split(calls[self].wire))

\* The registry of the store the step notified first, as it was when the
\* notification started.
RegistryNotified ==
    IF changeLog'[1].store = "messageHistory" THEN onMessageHistoryChangeCallbacks
    ELSE onContextChangeCallbacks

\* The step invoked a subscriber that unsubscribes while it is notified.
UnsubscribedInDelivery ==
    /\ changeLog' # <<>>
    /\ \E i \in 1..Len(changeLog') : changeLog'[i].callback \in OneShot

\* C33: when a subscriber of the history or of the context unsubscribes
\* while a notification is delivered, every subscriber that was registered
\* when the notification started receives it once, in the order of
\* registration: the first calls of the step are those of the registry, one
\* each, with one and the same collection.
C33_DeliveryOverSnapshot ==
    [][UnsubscribedInDelivery =>
          /\ Len(changeLog') >= Len(RegistryNotified)
          /\ \A i \in 1..Len(RegistryNotified) :
                 /\ changeLog'[i].callback = RegistryNotified[i]
                 /\ changeLog'[i].value = changeLog'[1].value]_vars

\* What the errors of the argument checks say.
ArgumentErrors ==
    {"content must be a non-empty string", "content exceeds maximum",
     "instructions must be a non-empty string if provided",
     "instructions must be a string if provided",
     "instructions exceeds maximum allowed length",
     "message failed: content exceeds maximum"}

\* The call was rejected for its arguments.
RejectedForInput(call) ==
    /\ call.op \in {"message", "greet", "rewrite", "sort", "shouldEngage"}
    /\ call.result.kind = "throw"
    /\ call.result.detail \in ArgumentErrors

\* C34: a call of message, greet, rewrite, sort or shouldEngage that is
\* rejected for malformed input sends no request and leaves the message
\* history, the context and the usage counters as they were.
C34_RejectedInputChangesNothing ==
    [][\A self \in 1..MaxCalls :
          (Starts(self) /\ RejectedForInput(calls'[self])) =>
              /\ requests' = requests
              /\ messageHistory' = messageHistory
              /\ context' = context
              /\ usageRemaining' = usageRemaining]_vars

\* After a message call that was answered and saved, a second call was
\* rejected for its arguments: the history, the context and the counters
\* hold what they held and no request was made for the second.
C34_Witness ==
    /\ Len(calls) = MaxCalls
    /\ calls[1].op = "message"
    /\ calls[1].result.kind = "return"
    /\ RejectedForInput(calls[MaxCalls])
    /\ calls[MaxCalls].op = "rewrite"
    /\ Len(messageHistory) >= 2
    /\ context # <<>>
    /\ usageRemaining.messages = Num(0)
    /\ \A i \in 1..Len(requests) : requests[i].op # "rewrite"

\* A stored message: a role of the history and a trimmed string of at most
\* MAX_MESSAGE_LENGTH characters.
WellFormedMessage(message) ==
    /\ message.role \in Roles
    /\ IsString(message.content)
    /\ Trim(message.content) = message.content
    /\ Length(message.content) <= MAX_MESSAGE_LENGTH

\* A stored context entry: a non-empty trimmed string of at most
\* MAX_CONTEXT_ENTRY_LENGTH characters and a number that is not negative.
WellFormedEntry(entry) ==
    /\ IsString(entry.content)
    /\ Trim(entry.content) = entry.content
    /\ Length(entry.content) > 0
    /\ Length(entry.content) <= MAX_CONTEXT_ENTRY_LENGTH
    /\ entry.timestamp \in Nat

\* C35: in every reachable state each stored message has role 'user' or
\* 'assistant' and trimmed content of at most 10000 characters, and each
\* stored context entry has non-empty trimmed content of at most 2000
\* characters and a finite timestamp that is not negative, whatever the store
\* operations, sends, streams and restores that led to the state.
C35_StoredEntriesAreWellFormed ==
    /\ \A i \in 1..Len(messageHistory) : WellFormedMessage(messageHistory[i])
    /\ \A i \in 1..Len(context) : WellFormedEntry(context[i])

\* The context was restored from a text whose content had a space around it,
\* and the history holds the question and the reply of a stream that has
\* returned.
C35_Witness ==
    /\ environment.localStorage["context"] = SpacedText
    /\ context = <<[content |-> <<"a">>, timestamp |-> now]>>
    /\ \E self \in 1..Len(calls) :
           /\ calls[self].op = "messageStream"
           /\ calls[self].pc = "done"
           /\ calls[self].result.kind = "return"
    /\ \E i \in 1..Len(messageHistory) :
           messageHistory[i].role = "assistant" /\ messageHistory[i].content # <<>>

\* The step is one that the stream call `self`, which saves to the history,
\* takes after it has inserted its placeholder.
SavingStreamMoves(self) ==
    /\ self \in 1..Len(calls)
    /\ calls[self].op = "messageStream"
    /\ calls[self].save
    /\ calls[self].index # Null
    /\ calls'[self].pc # calls[self].pc \/ calls'[self].emitted # calls[self].emitted

\* C36: every write a messageStream call that saves to the history makes
\* after it has inserted its placeholder, the cumulative text or the failure
\* notice, lands on that placeholder, whatever history operations and other
\* calls ran between its reads: its steps change no entry it did not insert.
C36_WritesLandOnOwnPlaceholder ==
    [][\A self \in 1..MaxCalls :
          SavingStreamMoves(self) =>
              /\ Len(messageHistory') = Len(messageHistory)
              /\ \A i \in 1..Len(messageHistory) :
                     messageHistory'[i] # messageHistory[i] =>
                         i \in PlaceholderOf(messageHistory, self)]_vars

\* C37: no request is sent to the service for an agent that is not
\* initialized: a step that sends one (initialization's own verification
\* aside) leaves isInitialized true.  message, messageStream, greet, rewrite,
\* sort, shouldEngage and fetchUsageRemaining fail or fall back without one
\* while it is false.
C37_NoRequestBeforeInitialized ==
    [][Len(requests') > Len(requests) => isInitialized']_vars

\* C38: whenever sort returns a result that is no fallback, the indexes it
\* returns hold every position of the input exactly once and the array it
\* returns is the input rearranged: no element is missing, none is there
\* twice and none is undefined for an index outside the input.
C38_SortReturnsPermutation ==
    \A self \in 1..Len(calls) :
        (/\ calls[self].op = "sort"
         /\ calls[self].pc = "done"
         /\ calls[self].result.kind = "return"
         /\ calls[self].result.value[1].fallback = "false") =>
            LET input == calls[self].wire.items
                sorted == calls[self].result.value[1]
            IN /\ Len(sorted.indexes) = Len(input)
               /\ {sorted.indexes[i] : i \in 1..Len(sorted.indexes)}
                      = {Num(k) : k \in 0..(Len(input) - 1)}
               /\ \A i \in 1..Len(sorted.array.value) :
                      sorted.array.value[i] # "#undefined"

\* A usage counter that is null or a number that is not negative.
NullOrNonNegative(counter) ==
    \/ counter = Null
    \/ counter # NaN /\ counter[1] >= 0

\* C39: in every reachable state each of the usage counters messages, sorts
\* and rewrites is null or a number that is not negative: the decrement a
\* call makes when its response carries no remaining quota takes no counter
\* below zero and makes no null counter a negative number.
C39_CountersAreNullOrNonNegative ==
    /\ NullOrNonNegative(usageRemaining.messages)
    /\ NullOrNonNegative(usageRemaining.sorts)
    /\ NullOrNonNegative(usageRemaining.rewrites)

\* The stream call `self` is over and had a 200 response with the body `wire`.
StreamedBody(self, wire) ==
    /\ calls[self].op = "messageStream"
    /\ calls[self].pc = "done"
    /\ calls[self].response.status = 200
    /\ calls[self].wire = wire

\* C40: of the same response messageStream emits the same fragments and
\* returns the same final value whether it saves to the history or not;
\* stated for two calls of one behaviour, the saving one with no other
\* history operation in between.
C40_SavingDoesNotChangeOutput ==
    \A saving, plain \in 1..Len(calls) :
        \A wire \in Wires :
            (/\ StreamedBody(saving, wire)
             /\ StreamedBody(plain, wire)
             /\ calls[saving].save
             /\ ~calls[saving].interleaved
             /\ ~calls[plain].save) =>
                /\ calls[saving].emitted = calls[plain].emitted
                /\ calls[saving].result = calls[plain].result
=============================================================================
